---- MODULE Spec2Model ----
(***************************************************************************)
(* A model of the rule-driven tabular data validator: the rule language    *)
(* (lexer and parser of src/src/validator/dsl.py), the rule evaluator      *)
(* (DSLInterpreter), and the engine that drives them over a file           *)
(* (src/src/validator/engine.py).                                          *)
(*                                                                         *)
(* Numbers.  Python ints and floats are modelled in fixed point: a number  *)
(* is an integer count of 1/Scale units, so 0.001 is Scale \div 1000 units *)
(* and 29.9995 is 299995 units.  The inputs are chosen so that every sum,  *)
(* difference and product the model computes is exact in both             *)
(* representations.                                                        *)
(*                                                                         *)
(* Text.  Rule lines and text cells are TLA+ strings, read character by    *)
(* character with SubSeq.                                                  *)
(***************************************************************************)
EXTENDS Integers, Sequences, FiniteSets, TLC

VARIABLES
    rules,       \* DSLInterpreter.rules: the parsed rules of the interpreter
    rules_list,  \* the module-global list p_rule_statement appends to
    op,          \* the operation that ran last
    arg,         \* its argument (a rule line, a list of lines, a row, a file)
    ret,         \* what it returned
    raised,      \* whether an exception left it instead
    loaded,      \* history: the rule lines handed to parse_rule since
                 \* self.rules was last empty
    alerts,      \* the trigger_alert calls of the last process_file
    disk,        \* the configuration file: routes and rulesets
    calls,       \* the process_file calls running as background tasks, each
                 \* with its position and its local variables
    input_dir,   \* the files in input/
    processed_dir,  \* the files in processed/
    rejected_dir,   \* the files in rejected/
    files,       \* watch: the files of the current scan not yet handled
    seen,        \* history: one earlier validate_rule call and its verdict
    configs      \* self.config of each ConfigManager instance

\* The directories of the watcher and its scan.
watcher_vars == <<input_dir, processed_dir, rejected_dir, files>>

vars == <<rules, rules_list, op, arg, ret, raised, loaded, alerts, disk,
          calls, input_dir, processed_dir, rejected_dir, files, seen, configs>>

(***************************************************************************)
(* Bounds of the model.                                                    *)
(***************************************************************************)
MaxCols == 3    \* widest generated row
MaxRules == 2   \* most rule lines in one ruleset text
MaxRows == 2    \* most rows in one file
MaxTasks == 2   \* most process_file calls running as background tasks

(***************************************************************************)
(* Python values: None, int, float and str.                                *)
(***************************************************************************)
Scale == 10 * 1000

None == [kind |-> "None", num |-> 0, text |-> ""]
PyInt(n) == [kind |-> "int", num |-> n * Scale, text |-> ""]
PyFloat(units) == [kind |-> "float", num |-> units, text |-> ""]
PyStr(s) == [kind |-> "str", num |-> 0, text |-> s]

PyTrue == [kind |-> "bool", num |-> 1, text |-> ""]
PyFalse == [kind |-> "bool", num |-> 0, text |-> ""]

\* What a call "returns" when an exception leaves it instead.
Raised == [kind |-> "raised", num |-> 0, text |-> ""]

IsNone(v) == v = None

(***************************************************************************)
(* Characters.                                                             *)
(***************************************************************************)
Char(s, i) == SubSeq(s, i, i)

Digits == {"0", "1", "2", "3", "4", "5", "6", "7", "8", "9"}

UpperLetters == {"A", "B", "C", "D", "E", "F", "G", "H", "I", "J", "K", "L", "M",
                 "N", "O", "P", "Q", "R", "S", "T", "U", "V", "W", "X", "Y", "Z"}

LowerLetters == {"a", "b", "c", "d", "e", "f", "g", "h", "i", "j", "k", "l", "m",
                 "n", "o", "p", "q", "r", "s", "t", "u", "v", "w", "x", "y", "z"}

DigitVal(c) ==
    CASE c = "0" -> 0 [] c = "1" -> 1 [] c = "2" -> 2 [] c = "3" -> 3
      [] c = "4" -> 4 [] c = "5" -> 5 [] c = "6" -> 6 [] c = "7" -> 7
      [] c = "8" -> 8 [] c = "9" -> 9

LowerChar(c) ==
    CASE c = "A" -> "a" [] c = "B" -> "b" [] c = "C" -> "c" [] c = "D" -> "d"
      [] c = "E" -> "e" [] c = "F" -> "f" [] c = "G" -> "g" [] c = "H" -> "h"
      [] c = "I" -> "i" [] c = "J" -> "j" [] c = "K" -> "k" [] c = "L" -> "l"
      [] c = "M" -> "m" [] c = "N" -> "n" [] c = "O" -> "o" [] c = "P" -> "p"
      [] c = "Q" -> "q" [] c = "R" -> "r" [] c = "S" -> "s" [] c = "T" -> "t"
      [] c = "U" -> "u" [] c = "V" -> "v" [] c = "W" -> "w" [] c = "X" -> "x"
      [] c = "Y" -> "y" [] c = "Z" -> "z" [] OTHER -> c

\* str.lower()
RECURSIVE Lower(_)
Lower(s) == IF s = "" THEN "" ELSE LowerChar(Head(s)) \o Lower(Tail(s))

\* The position after the run of digits that starts at i (i itself when
\* s[i] is no digit).
RECURSIVE DigitsEnd(_, _)
DigitsEnd(s, i) ==
    IF i <= Len(s) /\ Char(s, i) \in Digits THEN DigitsEnd(s, i + 1) ELSE i

\* int() of a run of digits.
RECURSIVE DigitsValue(_)
DigitsValue(s) ==
    IF s = "" THEN 0
    ELSE DigitsValue(SubSeq(s, 1, Len(s) - 1)) * 10 + DigitVal(Char(s, Len(s)))

\* 10 ^ n
RECURSIVE Pow10(_)
Pow10(n) == IF n = 0 THEN 1 ELSE 10 * Pow10(n - 1)

\* The number of decimal places the fixed point keeps.
RECURSIVE Log10(_)
Log10(n) == IF n <= 1 THEN 0 ELSE 1 + Log10(n \div 10)

Places == Log10(Scale)

\* The fraction digits d1 d2 ... as a count of 1/Scale units (digits beyond
\* the places the fixed point keeps are dropped).
FractionUnits(s) ==
    IF Len(s) >= Places
    THEN DigitsValue(SubSeq(s, 1, Places))
    ELSE DigitsValue(s) * Pow10(Places - Len(s))

(***************************************************************************)
(* LEXER.  PLY tries the token rules at the current position in a fixed    *)
(* order and takes the first that matches: the function rules in the order *)
(* of their definition (the keywords, then COLUMN_REF, STRING, NUMBER),    *)
(* then the string rules, longest regular expression first.                *)
(***************************************************************************)
\* The keyword rules t_IS .. t_REQUIRED in definition order.  Each matches its
\* word in any letter case; t_STRING_TYPE matches STRING with an optional
\* (greedy) _TYPE.
KeywordRules ==
    << <<"IS", "IS">>, <<"BETWEEN", "BETWEEN">>, <<"AND", "AND">>,
       <<"MATCHES", "MATCHES">>, <<"CONTAINS", "CONTAINS">>,
       <<"NOT_CONTAINS", "NOT_CONTAINS">>, <<"STARTS_WITH", "STARTS_WITH">>,
       <<"ENDS_WITH", "ENDS_WITH">>, <<"ALPHANUM", "ALPHANUM">>,
       <<"NUMERIC", "NUMERIC">>, <<"INTEGER", "INTEGER">>, <<"FLOAT", "FLOAT">>,
       <<"STRING_TYPE", "STRING_TYPE">>, <<"STRING_TYPE", "STRING">>,
       <<"REQUIRED", "REQUIRED">> >>

\* The string rules t_PLUS .. t_RPAREN, two-character operators first.
OperatorRules ==
    << <<"NOT_EQUALS", "!=">>, <<"GREATER_EQUAL", ">=">>, <<"LESS_EQUAL", "<=">>,
       <<"PLUS", "+">>, <<"MINUS", "-">>, <<"MULTIPLY", "*">>, <<"DIVIDE", "/">>,
       <<"EQUALS", "=">>, <<"GREATER", ">">>, <<"LESS", "<">>,
       <<"LPAREN", "(">>, <<"RPAREN", ")">> >>

\* word occurs in s at position i, letter case ignored.
MatchWord(s, i, word) ==
    /\ i + Len(word) - 1 <= Len(s)
    /\ Lower(SubSeq(s, i, i + Len(word) - 1)) = Lower(word)

NoMatch == [type |-> "", len |-> 0, value |-> None]

\* The first rule of a list of word rules that matches at i; the token's value
\* is the matched text.
RECURSIVE WordRuleAt(_, _, _, _)
WordRuleAt(ruleSeq, k, s, i) ==
    IF k > Len(ruleSeq) THEN NoMatch
    ELSE IF MatchWord(s, i, ruleSeq[k][2])
         THEN [type |-> ruleSeq[k][1], len |-> Len(ruleSeq[k][2]),
               value |-> PyStr(SubSeq(s, i, i + Len(ruleSeq[k][2]) - 1))]
         ELSE WordRuleAt(ruleSeq, k + 1, s, i)

\* t_COLUMN_REF: \d+[Cc], value int(digits).
t_COLUMN_REF(s, i) ==
    LET e == DigitsEnd(s, i) IN
    IF e > i /\ e <= Len(s) /\ Char(s, e) \in {"C", "c"}
    THEN [type |-> "COLUMN_REF", len |-> e - i + 1,
          value |-> PyInt(DigitsValue(SubSeq(s, i, e - 1)))]
    ELSE NoMatch

\* The position of the first double quote at or after i (Len(s) + 1 when none).
RECURSIVE QuoteAt(_, _)
QuoteAt(s, i) ==
    IF i > Len(s) \/ Char(s, i) = "\"" THEN i ELSE QuoteAt(s, i + 1)

\* t_STRING: "[^"]*", value without the quotes.
t_STRING(s, i) ==
    LET Quoted(close) ==
            IF close <= Len(s)
            THEN [type |-> "STRING", len |-> close - i + 1,
                  value |-> PyStr(SubSeq(s, i + 1, close - 1))]
            ELSE NoMatch
    IN  IF Char(s, i) = "\"" THEN Quoted(QuoteAt(s, i + 1)) ELSE NoMatch

\* t_NUMBER: \d+(\.\d+)?, a float when the text has a point, else an int.
t_NUMBER(s, i) ==
    LET e == DigitsEnd(s, i)
        f == IF e <= Len(s) /\ Char(s, e) = "." THEN DigitsEnd(s, e + 1) ELSE e
    IN  IF e = i THEN NoMatch
        ELSE IF f > e + 1
             THEN [type |-> "NUMBER", len |-> f - i,
                   value |-> PyFloat(DigitsValue(SubSeq(s, i, e - 1)) * Scale
                                     + FractionUnits(SubSeq(s, e + 1, f - 1)))]
             ELSE [type |-> "NUMBER", len |-> e - i,
                   value |-> PyInt(DigitsValue(SubSeq(s, i, e - 1)))]

\* The token the master regular expression yields at position i.
FirstMatch(first, others) == IF first.len > 0 THEN first ELSE others

TokenAt(s, i) ==
    FirstMatch(WordRuleAt(KeywordRules, 1, s, i),
    FirstMatch(t_COLUMN_REF(s, i),
    FirstMatch(t_STRING(s, i),
    FirstMatch(t_NUMBER(s, i),
               WordRuleAt(OperatorRules, 1, s, i)))))

\* The token stream of a rule line from position i on: blanks and tabs are
\* ignored (t_ignore), a character no rule matches is skipped (t_error).
RECURSIVE Tokenize(_, _), TokensFrom(_, _, _)
Tokenize(s, i) ==
    IF i > Len(s) THEN <<>>
    ELSE IF Char(s, i) \in {" ", "\t"} THEN Tokenize(s, i + 1)
    ELSE TokensFrom(s, i, TokenAt(s, i))

\* The tokens from position i on, m being what the master regular expression
\* yields at i.
TokensFrom(s, i, m) ==
    IF m.len = 0 THEN Tokenize(s, i + 1)
    ELSE <<[type |-> m.type, value |-> m.value]>> \o Tokenize(s, i + m.len)

(***************************************************************************)
(* PARSER.  The grammar of the p_ functions, parsed as the LALR(1) parser  *)
(* PLY builds from it parses.  A position is an index into the token       *)
(* stream; position Len(toks) + 1 is the end of input.                     *)
(***************************************************************************)
TypeAt(toks, i) == IF i <= Len(toks) THEN toks[i].type ELSE "$end"

Parsed(v, next) == [ok |-> TRUE, val |-> v, next |-> next]

\* The token at position at cannot continue the parse.
SyntaxError(at) == [ok |-> FALSE, val |-> None, next |-> at]

\* ("binary", op, left, right)
Binary(o, l, r) == [kind |-> "binary", op |-> o, left |-> l, right |-> r]

RECURSIVE p_expression(_, _), ExpressionRest(_, _, _), p_term(_, _),
          TermRest(_, _, _), p_factor(_, _)

\* factor : COLUMN_REF | NUMBER | LPAREN expression RPAREN
\* A column reference and a number both leave their bare value as the operand.
p_factor(toks, i) ==
    IF TypeAt(toks, i) \in {"COLUMN_REF", "NUMBER"}
    THEN Parsed(toks[i].value, i + 1)
    ELSE IF TypeAt(toks, i) = "LPAREN"
    THEN LET Close(e) ==
                 IF ~e.ok THEN e
                 ELSE IF TypeAt(toks, e.next) = "RPAREN"
                      THEN Parsed(e.val, e.next + 1)
                      ELSE SyntaxError(e.next)
         IN  Close(p_expression(toks, i + 1))
    ELSE SyntaxError(i)

\* term : factor | term MULTIPLY factor | term DIVIDE factor
TermRest(toks, left, i) ==
    IF TypeAt(toks, i) \in {"MULTIPLY", "DIVIDE"}
    THEN LET Reduce(f) ==
                 IF ~f.ok THEN f
                 ELSE TermRest(toks, Binary(toks[i].value.text, left, f.val), f.next)
         IN  Reduce(p_factor(toks, i + 1))
    ELSE Parsed(left, i)

p_term(toks, i) ==
    LET Rest(f) == IF ~f.ok THEN f ELSE TermRest(toks, f.val, f.next)
    IN  Rest(p_factor(toks, i))

\* An expression that groups to the right.
ExpressionRest_right(toks, left, i) ==
    IF TypeAt(toks, i) \in {"PLUS", "MINUS"}
    THEN LET Reduce(e) ==
                 IF ~e.ok THEN e
                 ELSE Parsed(Binary(toks[i].value.text, left, e.val), e.next)
         IN  Reduce(p_expression(toks, i + 1))
    ELSE Parsed(left, i)

\* expression : term | expression PLUS term | expression MINUS term
ExpressionRest(toks, left, i) ==
    IF TypeAt(toks, i) \in {"PLUS", "MINUS"}
    THEN LET Reduce(t) ==
                 IF ~t.ok THEN t
                 ELSE ExpressionRest(toks, Binary(toks[i].value.text, left, t.val),
                                     t.next)
         IN  Reduce(p_term(toks, i + 1))
    ELSE Parsed(left, i)

p_expression(toks, i) ==
    LET Rest(t) == IF ~t.ok THEN t ELSE ExpressionRest(toks, t.val, t.next)
    IN  Rest(p_term(toks, i))

\* value : NUMBER | STRING
p_value == {"NUMBER", "STRING"}

\* The column number a COLUMN_REF token carries.
ColumnOf(tok) == tok.value.num \div Scale

p_arithmetic_rule(target, expr) ==
    [type |-> "arithmetic", target |-> target, expression |-> expr]

p_datatype_rule(column, datatype) ==
    [type |-> "datatype", column |-> column, datatype |-> Lower(datatype)]

p_comparison_rule(column, operator, value) ==
    [type |-> "comparison", column |-> column, operator |-> operator,
     value |-> value]

p_pattern_rule(column, operator, pattern) ==
    [type |-> "pattern", column |-> column, operator |-> Lower(operator),
     pattern |-> pattern]

p_range_rule(column, min, max) ==
    [type |-> "range", column |-> column, min |-> min, max |-> max]

p_validation_rule(column) ==
    [type |-> "validation", column |-> column, validation |-> "required"]

\* After COLUMN_REF EQUALS the parser is in the one state that holds both
\* "arithmetic_rule : COLUMN_REF EQUALS . expression" and
\* "comparison_operator : EQUALS .".  A STRING reduces the operator (a
\* comparison); on a NUMBER the shift/reduce conflict is resolved as a shift,
\* so a NUMBER, like a COLUMN_REF or a parenthesis, starts an expression.
AfterEquals(toks, i) ==
    IF TypeAt(toks, i + 2) = "STRING"
    THEN Parsed(p_comparison_rule(ColumnOf(toks[i]), toks[i + 1].value.text,
                                  toks[i + 2].value), i + 3)
    ELSE LET Reduce(e) ==
                 IF ~e.ok THEN e
                 ELSE IF e.next <= Len(toks) THEN SyntaxError(e.next)
                 ELSE Parsed(p_arithmetic_rule(ColumnOf(toks[i]), e.val), e.next)
         IN  Reduce(p_expression(toks, i + 2))

\* rule_statement, from position i.  Parsed(rule, next): the tokens i ..
\* next - 1 were reduced to rule_statement (p_rule_statement has run).  Every
\* rule but the arithmetic one is reduced as soon as its last token is shifted;
\* the arithmetic rule is reduced only when the end of input follows.
p_rule(toks, i) ==
    IF TypeAt(toks, i) # "COLUMN_REF" THEN SyntaxError(i)
    ELSE LET second == TypeAt(toks, i + 1)
             third == TypeAt(toks, i + 2)
             column == ColumnOf(toks[i])
             \* comparison_operator, pattern_operator and datatype
             ComparisonOperators ==
                 {"EQUALS", "NOT_EQUALS", "GREATER", "LESS", "GREATER_EQUAL",
                  "LESS_EQUAL"}
             PatternOperators ==
                 {"MATCHES", "CONTAINS", "NOT_CONTAINS", "STARTS_WITH", "ENDS_WITH"}
             DatatypeKeywords ==
                 {"ALPHANUM", "NUMERIC", "INTEGER", "FLOAT", "STRING_TYPE"}
         IN
         IF second = "EQUALS" THEN AfterEquals(toks, i)
         ELSE IF second \in ComparisonOperators
         THEN IF third \in p_value
              THEN Parsed(p_comparison_rule(column, toks[i + 1].value.text,
                                            toks[i + 2].value), i + 3)
              ELSE SyntaxError(i + 2)
         ELSE IF second = "IS"
         THEN IF third \in DatatypeKeywords
              THEN Parsed(p_datatype_rule(column, toks[i + 2].value.text), i + 3)
              ELSE SyntaxError(i + 2)
         ELSE IF second \in PatternOperators
         THEN IF third = "STRING"
              THEN Parsed(p_pattern_rule(column, toks[i + 1].value.text,
                                         toks[i + 2].value.text), i + 3)
              ELSE SyntaxError(i + 2)
         ELSE IF second = "BETWEEN"
         THEN IF third # "NUMBER" THEN SyntaxError(i + 2)
              ELSE IF TypeAt(toks, i + 3) # "AND" THEN SyntaxError(i + 3)
              ELSE IF TypeAt(toks, i + 4) # "NUMBER" THEN SyntaxError(i + 4)
              ELSE Parsed(p_range_rule(column, toks[i + 2].value,
                                       toks[i + 4].value), i + 5)
         ELSE IF second = "REQUIRED"
         THEN Parsed(p_validation_rule(column), i + 2)
         ELSE SyntaxError(i + 1)

\* parser.parse from position i, with the rules p_rule_statement has appended
\* to rules_list so far.  On a syntax error p_error only prints: the parser
\* then unwinds its stack to the start state, drops the offending token and
\* goes on with the tokens after it; an error at the end of input ends the
\* parse with None.
RECURSIVE yacc_parse(_, _, _), AfterRule(_, _, _)
yacc_parse(toks, i, appended) == AfterRule(toks, p_rule(toks, i), appended)

\* r is what the parse of one rule_statement gave: reduced (p_rule_statement
\* appends the rule) or stopped at a syntax error.
AfterRule(toks, r, appended) ==
    IF r.ok
    THEN IF r.next > Len(toks)
         THEN [result |-> r.val, rules_list |-> Append(appended, r.val)]
         ELSE yacc_parse(toks, r.next + 1, Append(appended, r.val))
    ELSE IF r.next > Len(toks)
         THEN [result |-> None, rules_list |-> appended]
         ELSE yacc_parse(toks, r.next + 1, appended)

(***************************************************************************)
(* PYTHON BUILT-INS the evaluator uses.                                    *)
(***************************************************************************)
Abs(n) == IF n < 0 THEN 0 - n ELSE n

Whitespace == {" ", "\t", "\n", "\r"}

\* str.strip()
RECURSIVE StripLeft(_), StripRight(_)
StripLeft(s) ==
    IF s # "" /\ Head(s) \in Whitespace THEN StripLeft(Tail(s)) ELSE s

StripRight(s) ==
    IF s # "" /\ Char(s, Len(s)) \in Whitespace
    THEN StripRight(SubSeq(s, 1, Len(s) - 1)) ELSE s

Strip(s) == StripRight(StripLeft(s))

\* str.isdigit() and str.isalnum(), over the ASCII characters of the model.
RECURSIVE AllIn(_, _)
AllIn(s, chars) == s = "" \/ (Head(s) \in chars /\ AllIn(Tail(s), chars))

IsDigit(s) == s # "" /\ AllIn(s, Digits)

IsAlnum(s) == s # "" /\ AllIn(s, Digits \cup UpperLetters \cup LowerLetters)

\* str.startswith, str.endswith, and the substring test "p in s".
StartsWith(s, p) == Len(p) <= Len(s) /\ SubSeq(s, 1, Len(p)) = p

EndsWith(s, p) == Len(p) <= Len(s) /\ SubSeq(s, Len(s) - Len(p) + 1, Len(s)) = p

Contains(s, p) == \E i \in 1..(Len(s) - Len(p) + 1) : SubSeq(s, i, i + Len(p) - 1) = p

\* str.replace(ch, "", 1): s without the first occurrence of the character ch.
RECURSIVE ReplaceFirst(_, _)
ReplaceFirst(s, ch) ==
    IF s = "" THEN ""
    ELSE IF Head(s) = ch THEN Tail(s)
    ELSE Head(s) \o ReplaceFirst(Tail(s), ch)

\* str() of a non-negative int.
RECURSIVE NatStr(_)
NatStr(n) ==
    IF n < 10 THEN Char("0123456789", n + 1)
    ELSE NatStr(n \div 10) \o Char("0123456789", (n % 10) + 1)

\* The fraction digits of repr(float): the places the fixed point keeps,
\* without trailing zeros, at least one digit.
RECURSIVE FractionStr(_, _)
FractionStr(units, places) ==
    IF places = 1 \/ units % Pow10(places - 1) = 0
    THEN NatStr(units \div Pow10(places - 1))
    ELSE NatStr(units \div Pow10(places - 1))
         \o FractionStr(units % Pow10(places - 1), places - 1)

\* str(value): "10" for an int, "29.9995" or "10.0" for a float, the text
\* itself for a str, "None" for None.
PyStrOf(v) ==
    CASE v.kind = "str" -> v.text
      [] v.kind = "None" -> "None"
      [] v.kind = "int" ->
           (IF v.num < 0 THEN "-" ELSE "") \o NatStr(Abs(v.num) \div Scale)
      [] v.kind = "float" ->
           (IF v.num < 0 THEN "-" ELSE "") \o NatStr(Abs(v.num) \div Scale)
           \o "." \o FractionStr(Abs(v.num) % Scale, Places)

\* float(text): an optional sign, then digits with an optional point
\* ("5", "5.", ".5", "5.25"), blanks around it ignored.  ok is FALSE where
\* Python raises ValueError.  (Exponents, "inf" and "nan" are outside the
\* texts of the model.)
FloatOfDigits(negative, body, e, f) ==
    [ok |-> (e - 1) + (IF f > e THEN f - e - 1 ELSE 0) > 0 /\ f = Len(body) + 1,
     num |-> (IF negative THEN 0 - 1 ELSE 1)
             * ((IF e > 1 THEN DigitsValue(SubSeq(body, 1, e - 1)) ELSE 0) * Scale
                + (IF f > e + 1 THEN FractionUnits(SubSeq(body, e + 1, f - 1))
                   ELSE 0))]

\* body is the text after the sign; its leading digits end before position e.
FloatOfBody(negative, body, e) ==
    FloatOfDigits(negative, body, e,
                  IF e <= Len(body) /\ Char(body, e) = "."
                  THEN DigitsEnd(body, e + 1) ELSE e)

FloatOfText(s) ==
    LET Unsigned(t, signed) ==
            FloatOfBody(signed /\ Head(t) = "-",
                        IF signed THEN Tail(t) ELSE t,
                        DigitsEnd(IF signed THEN Tail(t) ELSE t, 1))
        Stripped(t) == Unsigned(t, t # "" /\ Head(t) \in {"+", "-"})
    IN  Stripped(Strip(s))

\* float(value).  ok is FALSE where Python raises TypeError (None) or
\* ValueError (a text that is no number).
Float(v) ==
    CASE v.kind \in {"int", "float"} -> [ok |-> TRUE, num |-> v.num]
      [] v.kind = "str" -> FloatOfText(v.text)
      [] OTHER -> [ok |-> FALSE, num |-> 0]

\* The product and the quotient of two fixed-point numbers, (a * b) \div Scale
\* and (a * Scale) \div b, formed from parts that stay within TLC's integers.
Times(a, b) ==
    (a \div Scale) * b + (a % Scale) * (b \div Scale)
        + ((a % Scale) * (b % Scale)) \div Scale

Over(a, b) ==
    LET hundred == Scale \div 100
        Quotient(n, d) ==
            (n \div d) * Scale + (((n % d) * hundred) \div d) * hundred
                + ((((n % d) * hundred) % d) * hundred) \div d
    IN  IF b > 0 THEN Quotient(a, b) ELSE Quotient(0 - a, 0 - b)

\* format(x, ".2f"): x rounded to two decimal places, ties to even.
Format2f(units) ==
    LET step == Scale \div 100
        low == (units \div step) * step
        rest == units - low
    IN  [kind |-> "float",
         num |-> IF 2 * rest < step THEN low
                 ELSE IF 2 * rest > step THEN low + step
                 ELSE IF (low \div step) % 2 = 0 THEN low ELSE low + step,
         text |-> ".2f"]

\* str(bool)
BoolStr(b) == PyStr(IF b THEN "True" ELSE "False")

(***************************************************************************)
(* A row is the dict load_data builds for one line of the file: the cells  *)
(* under the keys 1 .. n.  It is modelled as the sequence of its cells.    *)
(***************************************************************************)
\* key in data
InData(key, data) == key \in 1..Len(data)

\* data.get(key)
Get(data, key) == IF InData(key, data) THEN data[key] ELSE None

(***************************************************************************)
(* RULE INTERPRETER.                                                       *)
(***************************************************************************)
\* isinstance(expr, int) and expr in data
IsKeyOf(expr, data) == expr.kind = "int" /\ InData(expr.num \div Scale, data)

\* DSLInterpreter.evaluate_expression.  An operand that is an int is looked
\* up in the row when the row has that key, and stands for itself when it
\* has not; a binary node whose operands do not both convert with float()
\* evaluates to None.
\* A binary node whose division by zero has no value.
BinaryValue_undefined(operator, left_num, right_num) ==
    IF ~left_num.ok \/ ~right_num.ok THEN None
    ELSE CASE operator = "+" -> PyFloat(left_num.num + right_num.num)
           [] operator = "-" -> PyFloat(left_num.num - right_num.num)
           [] operator = "*" -> PyFloat(Times(left_num.num, right_num.num))
           [] operator = "/" ->
                IF right_num.num # 0
                THEN PyFloat(Over(left_num.num, right_num.num))
                ELSE None
           [] OTHER -> None

\* The value of a binary node from float() of its operands' values.
BinaryValue(operator, left_num, right_num) ==
    IF ~left_num.ok \/ ~right_num.ok THEN None
    ELSE CASE operator = "+" -> PyFloat(left_num.num + right_num.num)
           [] operator = "-" -> PyFloat(left_num.num - right_num.num)
           [] operator = "*" -> PyFloat(Times(left_num.num, right_num.num))
           [] operator = "/" ->
                IF right_num.num # 0
                THEN PyFloat(Over(left_num.num, right_num.num))
                ELSE PyInt(0)
           [] OTHER -> None

RECURSIVE evaluate_expression(_, _)
evaluate_expression(expr, data) ==
    IF expr.kind \in {"int", "float"}
    THEN IF IsKeyOf(expr, data) THEN Get(data, expr.num \div Scale) ELSE expr
    ELSE IF expr.kind = "binary"
    THEN BinaryValue(expr.op, Float(evaluate_expression(expr.left, data)),
                     Float(evaluate_expression(expr.right, data)))
    ELSE None

\* abs(a - b) < 0.001
Tolerance == Scale \div 1000

\* A verdict {"passed": ..., "message": ...}.  The message is kept as its
\* format string with the values it interpolates.
Verdict(passed, template, column, v1, v2, v3) ==
    [passed |-> passed,
     message |-> [template |-> template, column |-> column,
                  v1 |-> v1, v2 |-> v2, v3 |-> v3]]

\* The regular expressions of the model: a literal character, "\c" (the
\* character c; \d a digit, \w a word character), "." (any character), and
\* any of these followed by "*".  A pattern that opens a group it never
\* closes, or closes one it never opened, does not compile (re.error).
\* The first atom of a non-empty pattern and the pattern after it.
AtomOf(p) ==
    IF Head(p) = "\\" /\ Len(p) >= 2
    THEN [class |-> "\\" \o Char(p, 2), rest |-> SubSeq(p, 3, Len(p))]
    ELSE [class |-> Head(p), rest |-> Tail(p)]

AtomMatches(class, c) ==
    CASE class = "." -> c # "\n"
      [] class = "\\d" -> c \in Digits
      [] class = "\\w" -> c \in Digits \cup UpperLetters \cup LowerLetters \cup {"_"}
      [] Len(class) = 2 -> c = Char(class, 2)
      [] OTHER -> c = class

RECURSIVE MatchHere(_, _), MatchStar(_, _, _)
\* The pattern p matches a prefix of the text s.
MatchHere(p, s) ==
    IF p = "" THEN TRUE
    ELSE LET a == AtomOf(p) IN
         IF a.rest # "" /\ Head(a.rest) = "*"
         THEN MatchStar(a.class, Tail(a.rest), s)
         ELSE /\ s # ""
              /\ AtomMatches(a.class, Head(s))
              /\ MatchHere(a.rest, Tail(s))

MatchStar(class, p, s) ==
    \/ MatchHere(p, s)
    \/ (s # "" /\ AtomMatches(class, Head(s)) /\ MatchStar(class, p, Tail(s)))

RECURSIVE GroupDepth(_, _)
GroupDepth(pattern, depth) ==
    IF pattern = "" \/ depth < 0 THEN depth
    ELSE IF Head(pattern) = "\\" THEN GroupDepth(SubSeq(pattern, 3, Len(pattern)), depth)
    ELSE GroupDepth(Tail(pattern),
                    depth + (IF Head(pattern) = "(" THEN 1
                             ELSE IF Head(pattern) = ")" THEN -1 ELSE 0))

\* bool(re.match(pattern, value)): the pattern matches at the start of value.
ReMatch(pattern, value) == MatchHere(pattern, value)

\* bool(re.search(pattern, value)): the pattern matches somewhere in value.
ReSearch(pattern, value) ==
    \E i \in 1..(Len(value) + 1) : MatchHere(pattern, SubSeq(value, i, Len(value)))

validate_arithmetic(rule, data) ==
    LET target == rule.target
        Compared(actual, expected, actual_num, expected_num) ==
            IF ~actual_num.ok \/ ~expected_num.ok
            THEN Verdict(FALSE,
                         "Non-numeric values in arithmetic check on column {target}",
                         target, None, None, None)
            ELSE Verdict(Abs(actual_num.num - expected_num.num) < Tolerance,
                         "Column {target}C = {actual}, Expected: {expected:.2f}",
                         target, actual, Format2f(expected_num.num), None)
        Checked(expected, actual) ==
            IF IsNone(actual) \/ IsNone(expected)
            THEN Verdict(FALSE, "Missing data for arithmetic check on column {target}",
                         target, None, None, None)
            ELSE Compared(actual, expected, Float(actual), Float(expected))
    IN  Checked(evaluate_expression(rule.expression, data), Get(data, target))

validate_datatype(rule, data) ==
    LET column == rule.column
        expected_type == rule.datatype
        HasType(value, str_value) ==
            CASE expected_type = "alphanum" -> IsAlnum(str_value)
              [] expected_type = "numeric" ->
                   IsDigit(ReplaceFirst(ReplaceFirst(str_value, "."), "-"))
              [] expected_type = "integer" ->
                   \/ IsDigit(str_value)
                   \/ (StartsWith(str_value, "-") /\ IsDigit(Tail(str_value)))
              [] expected_type = "float" -> Float(value).ok
              [] expected_type = "string_type" -> value.kind = "str"
              [] OTHER -> FALSE
        Result(passed) ==
            Verdict(passed, "Column {column}C is {expected_type}: {passed}",
                    column, PyStr(expected_type), BoolStr(passed), None)
        Checked(value) ==
            IF IsNone(value)
            THEN Verdict(FALSE, "Column {column}C is empty", column, None, None, None)
            ELSE Result(HasType(value, PyStrOf(value)))
    IN  Checked(Get(data, column))

validate_comparison(rule, data) ==
    LET column == rule.column
        operator == rule.operator
        expected_value == rule.value
        Compared(actual_value, actual_num, expected_num) ==
            IF actual_num.ok /\ expected_num.ok
            THEN CASE operator = "=" ->
                        Abs(actual_num.num - expected_num.num) < Tolerance
                   [] operator = "!=" ->
                        Abs(actual_num.num - expected_num.num) > Tolerance
                   [] operator = ">" -> actual_num.num > expected_num.num
                   [] operator = "<" -> actual_num.num < expected_num.num
                   [] operator = ">=" -> actual_num.num >= expected_num.num
                   [] operator = "<=" -> actual_num.num <= expected_num.num
                   [] OTHER -> FALSE
            ELSE CASE operator = "=" ->
                        PyStrOf(actual_value) = PyStrOf(expected_value)
                   [] operator = "!=" ->
                        PyStrOf(actual_value) # PyStrOf(expected_value)
                   [] OTHER -> FALSE
        Checked(actual_value) ==
            IF IsNone(actual_value)
            THEN Verdict(FALSE, "Column {column}C is empty", column, None, None, None)
            ELSE Verdict(Compared(actual_value, Float(actual_value),
                                  Float(expected_value)),
                         "Column {column}C = {actual_value}, Expected {operator} {expected_value}",
                         column, actual_value, PyStr(operator), expected_value)
    IN  Checked(Get(data, column))

\* A pattern check that renders a missing cell as str(None).
validate_pattern_none(rule, data) ==
    LET Matched(value) ==
            CASE rule.operator = "matches" -> ReMatch(rule.pattern, value)
              [] rule.operator = "contains" -> Contains(value, rule.pattern)
              [] rule.operator = "not_contains" -> ~Contains(value, rule.pattern)
              [] rule.operator = "starts_with" -> StartsWith(value, rule.pattern)
              [] rule.operator = "ends_with" -> EndsWith(value, rule.pattern)
              [] OTHER -> FALSE
        Result(passed) ==
            Verdict(passed, "Column {column}C {operator} '{pattern}': {passed}",
                    rule.column, PyStr(rule.operator), PyStr(rule.pattern),
                    BoolStr(passed))
    IN  Result(Matched(PyStrOf(Get(data, rule.column))))

validate_pattern(rule, data) ==
    LET column == rule.column
        operator == rule.operator
        pattern == rule.pattern
        Matched(value) ==
            CASE operator = "matches" -> ReMatch(pattern, value)
              [] operator = "contains" -> Contains(value, pattern)
              [] operator = "not_contains" -> ~Contains(value, pattern)
              [] operator = "starts_with" -> StartsWith(value, pattern)
              [] operator = "ends_with" -> EndsWith(value, pattern)
              [] OTHER -> FALSE
        Result(passed) ==
            Verdict(passed, "Column {column}C {operator} '{pattern}': {passed}",
                    column, PyStr(operator), PyStr(pattern), BoolStr(passed))
    IN  Result(Matched(IF InData(column, data) THEN PyStrOf(data[column]) ELSE ""))

\* A range check that excludes its bounds.
validate_range_exclusive(rule, data) ==
    LET value == Get(data, rule.column)
        value_num == Float(Get(data, rule.column))
    IN  Verdict(/\ ~IsNone(value)
                /\ value_num.ok
                /\ rule.min.num < value_num.num
                /\ value_num.num < rule.max.num,
                "Column {column}C = {value} in range [{min_val}, {max_val}]: {passed}",
                rule.column, value, rule.min, rule.max)

validate_range(rule, data) ==
    LET column == rule.column
        min_val == rule.min
        max_val == rule.max
        InRange(value_num) ==
            /\ value_num.ok
            /\ min_val.num <= value_num.num
            /\ value_num.num <= max_val.num
        Checked(value) ==
            IF IsNone(value)
            THEN Verdict(FALSE, "Missing data for range check on column {column}",
                         column, None, None, None)
            ELSE Verdict(InRange(Float(value)),
                         "Column {column}C = {value} in range [{min_val}, {max_val}]: {passed}",
                         column, value, min_val, max_val)
    IN  Checked(Get(data, column))

validate_required_truthy(rule, data) ==
    LET column == rule.column
        Present(value) ==
            /\ ~IsNone(value)
            /\ Strip(PyStrOf(value)) # ""
            /\ ~(value.kind \in {"int", "float"} /\ value.num = 0)
        Result(passed) ==
            Verdict(passed, "Column {column}C is required: {passed}",
                    column, BoolStr(passed), None, None)
    IN  Result(Present(Get(data, column)))

validate_required(rule, data) ==
    LET column == rule.column
        Present(value) == ~IsNone(value) /\ Strip(PyStrOf(value)) # ""
        Result(passed) ==
            Verdict(passed, "Column {column}C is required: {passed}",
                    column, BoolStr(passed), None, None)
    IN  Result(Present(Get(data, column)))

validate_rule_counting(rule, data) ==
    LET Flipped(verdict) ==
            IF op = "validate_rule" THEN [verdict EXCEPT !.passed = ~@] ELSE verdict
    IN  CASE rule.type = "comparison" -> Flipped(validate_comparison(rule, data))
          [] rule.type = "pattern" -> validate_pattern(rule, data)
          [] rule.type = "validation" -> Flipped(validate_required(rule, data))
          [] OTHER -> Verdict(FALSE, "Unknown rule type: {rule_type}", 0, None, None, None)

\* DSLInterpreter.validate_rule
validate_rule(rule, data) ==
    CASE rule.type = "arithmetic" -> validate_arithmetic(rule, data)
      [] rule.type = "datatype" -> validate_datatype(rule, data)
      [] rule.type = "comparison" -> validate_comparison(rule, data)
      [] rule.type = "pattern" -> validate_pattern(rule, data)
      [] rule.type = "range" -> validate_range(rule, data)
      [] rule.type = "validation" -> validate_required(rule, data)
      [] OTHER -> Verdict(FALSE, "Unknown rule type: {rule_type}", 0, None, None, None)

\* validate_rule raises instead of returning: re.match on a pattern that does
\* not compile.
validate_rule_raises(rule, data) ==
    /\ rule.type = "pattern"
    /\ rule.operator = "matches"
    /\ GroupDepth(rule.pattern, 0) # 0

\* DSLInterpreter.validate_data: one result per rule of self.rules, in order.
validate_data(self_rules, data) ==
    LET Result(rule, verdict) ==
            [rule |-> rule, passed |-> verdict.passed, message |-> verdict.message]
    IN  [i \in 1..Len(self_rules) |->
            Result(self_rules[i], validate_rule(self_rules[i], data))]

validate_data_raises(self_rules, data) ==
    \E i \in 1..Len(self_rules) : validate_rule_raises(self_rules[i], data)

(***************************************************************************)
(* parse_rule and parse_multiple_rules, as functions of the interpreter's  *)
(* state.                                                                  *)
(***************************************************************************)
\* DSLInterpreter.parse_rule(rule_text) on an interpreter whose rules are
\* self_rules: the global rules_list is emptied, the parser runs, and the
\* first rule p_rule_statement appended, if any, is appended to self.rules
\* and returned; otherwise the parser's result is returned.
parse_rule(self_rules, rule_text) ==
    LET Returned(parse) ==
            IF parse.rules_list # <<>>
            THEN [rules |-> Append(self_rules, parse.rules_list[1]),
                  rules_list |-> parse.rules_list,
                  ret |-> parse.rules_list[1]]
            ELSE [rules |-> self_rules, rules_list |-> parse.rules_list,
                  ret |-> parse.result]
    IN  Returned(yacc_parse(Tokenize(rule_text, 1), 1, <<>>))

\* "\n".join(lines)
RECURSIVE Join(_)
Join(lines) ==
    IF lines = <<>> THEN ""
    ELSE IF Len(lines) = 1 THEN lines[1]
    ELSE lines[1] \o "\n" \o Join(Tail(lines))

\* text.split("\n")
RECURSIVE SplitFrom(_, _, _)
SplitFrom(text, i, start) ==
    IF i > Len(text) THEN <<SubSeq(text, start, Len(text))>>
    ELSE IF Char(text, i) = "\n"
         THEN <<SubSeq(text, start, i - 1)>> \o SplitFrom(text, i + 1, i + 1)
         ELSE SplitFrom(text, i + 1, start)

SplitLines(text) == SplitFrom(text, 1, 1)

\* The lines parse_multiple_rules hands to parse_rule: stripped, not empty,
\* not starting with "#".
RuleLinesOf(rules_text) ==
    LET Stripped(lines) == [i \in 1..Len(lines) |-> Strip(lines[i])]
        IsRuleLine(line) == Strip(line) # "" /\ ~StartsWith(Strip(line), "#")
    IN  SelectSeq(Stripped(SplitLines(Strip(rules_text))), IsRuleLine)

\* The loop of parse_multiple_rules over the rule lines k .. Len(lines):
\* st.parsed_rules collects what parse_rule returned when it is truthy.
RECURSIVE ParseLoop(_, _, _)
ParseLoop(lines, k, st) ==
    IF k > Len(lines) THEN st
    ELSE LET Collected(one) ==
                 [rules |-> one.rules,
                  rules_list |-> one.rules_list,
                  parsed_rules |-> IF one.ret = None THEN st.parsed_rules
                                   ELSE Append(st.parsed_rules, one.ret)]
         IN  ParseLoop(lines, k + 1, Collected(parse_rule(st.rules, lines[k])))

\* DSLInterpreter.parse_multiple_rules(rules_text)
parse_multiple_rules(self_rules, global_rules_list, rules_text) ==
    ParseLoop(RuleLinesOf(rules_text), 1,
              [rules |-> self_rules, rules_list |-> global_rules_list,
               parsed_rules |-> <<>>])

(***************************************************************************)
(* ENGINE: load_data, the configuration and the router.                    *)
(***************************************************************************)
\* The cell load_data stores for a raw field: stripped, then an int if int()
\* takes it (an optional sign and digits), else a float if float() takes it,
\* else the text.
LoadCell(val) ==
    LET FloatOrText(text, f) == IF f.ok THEN PyFloat(f.num) ELSE PyStr(text)
        IsIntText(t) ==
            IsDigit(IF t # "" /\ Head(t) \in {"+", "-"} THEN Tail(t) ELSE t)
        IntOfText(t) ==
            IF Head(t) = "-" THEN PyInt(0 - DigitsValue(Tail(t)))
            ELSE IF Head(t) = "+" THEN PyInt(DigitsValue(Tail(t)))
            ELSE PyInt(DigitsValue(t))
        Converted(text) ==
            IF IsIntText(text) THEN IntOfText(text)
            ELSE FloatOrText(text, FloatOfText(text))
    IN  Converted(Strip(val))

\* ValidationEngine.load_data: one dict per csv row, keyed 1 .. n.
LoadRow(fields) == [i \in 1..Len(fields) |-> LoadCell(fields[i])]

load_data(file_rows) == [i \in 1..Len(file_rows) |-> LoadRow(file_rows[i])]

\* ConfigManager.__init__: the configuration before anything is saved.
EmptyConfig ==
    [routes |-> <<>>, rulesets |-> [n \in {} |-> <<>>],
     system_config |-> [n \in {} |-> <<>>]]

\* list.sort(key=priority, reverse=True): stable, highest priority first.
RECURSIVE InsertByPriority(_, _)
InsertByPriority(sorted, route) ==
    IF sorted = <<>> THEN <<route>>
    ELSE IF Head(sorted).priority >= route.priority
         THEN <<Head(sorted)>> \o InsertByPriority(Tail(sorted), route)
         ELSE <<route>> \o sorted

RECURSIVE SortByPriority(_)
SortByPriority(routes) ==
    IF routes = <<>> THEN <<>>
    ELSE InsertByPriority(SortByPriority(SubSeq(routes, 1, Len(routes) - 1)),
                          routes[Len(routes)])

\* ConfigManager.add_ruleset
add_ruleset(config, name, rule_strings) ==
    [config EXCEPT !.rulesets =
        [n \in DOMAIN config.rulesets \cup {name} |->
            IF n = name THEN rule_strings ELSE config.rulesets[n]]]

add_route_unsorted(config, pattern, ruleset_name, priority) ==
    LET others == SelectSeq(config.routes, LAMBDA r : r.pattern # pattern)
        new == [pattern |-> pattern, ruleset |-> ruleset_name, priority |-> priority]
    IN  [config EXCEPT !.routes = Append(others, new)]

\* ConfigManager.add_route
add_route(config, pattern, ruleset_name, priority) ==
    LET others == SelectSeq(config.routes, LAMBDA r : r.pattern # pattern)
        new == [pattern |-> pattern, ruleset |-> ruleset_name, priority |-> priority]
    IN  [config EXCEPT !.routes = SortByPriority(Append(others, new))]

\* ConfigManager.set_system_config
set_system_config(config, system_config) ==
    [config EXCEPT !.system_config = system_config]

\* ConfigManager.get_ruleset
get_ruleset(config, name) ==
    IF name \in DOMAIN config.rulesets THEN config.rulesets[name] ELSE <<>>

\* os.path.basename
RECURSIVE Basename(_)
Basename(path) ==
    IF \E i \in 1..Len(path) : Char(path, i) = "/"
    THEN Basename(Tail(path)) ELSE path

\* The dictionaries of named groups of the ways the pattern p matches a prefix
\* of s, in the order the backtracking matcher of re finds them ("*" takes
\* all it can first).  A group is "(?P<name>" ... ")" around atoms, not
\* repeated; open holds the groups entered and the text each has taken, and
\* closed the groups left.
RECURSIVE GroupDicts(_, _, _, _)
GroupDicts(p, s, open, closed) ==
    LET Taken(c) == [k \in 1..Len(open) |-> [open[k] EXCEPT !.text = @ \o c]]
        NameEnd == CHOOSE i \in 5..Len(p) :
                      /\ Char(p, i) = ">"
                      /\ \A j \in 5..(i - 1) : Char(p, j) # ">"
        Left(group) == [n \in DOMAIN closed \cup {group.name} |->
                          IF n = group.name THEN group.text ELSE closed[n]]
        Star(class, rest) ==
            (IF s # "" /\ AtomMatches(class, Head(s))
             THEN GroupDicts(p, Tail(s), Taken(Head(s)), closed) ELSE <<>>)
            \o GroupDicts(rest, s, open, closed)
        One(class, rest) ==
            IF s # "" /\ AtomMatches(class, Head(s))
            THEN GroupDicts(rest, Tail(s), Taken(Head(s)), closed) ELSE <<>>
        Atom(a) == IF a.rest # "" /\ Head(a.rest) = "*"
                   THEN Star(a.class, Tail(a.rest)) ELSE One(a.class, a.rest)
    IN  IF p = "" THEN <<closed>>
        ELSE IF Len(p) >= 4 /\ SubSeq(p, 1, 4) = "(?P<"
        THEN GroupDicts(SubSeq(p, NameEnd + 1, Len(p)), s,
                        Append(open, [name |-> SubSeq(p, 5, NameEnd - 1), text |-> ""]),
                        closed)
        ELSE IF Head(p) = ")"
        THEN GroupDicts(Tail(p), s, SubSeq(open, 1, Len(open) - 1),
                        Left(open[Len(open)]))
        ELSE Atom(AtomOf(p))

\* re.search(pattern, value): whether the pattern matches somewhere in value,
\* and match.groupdict() of the leftmost match (empty for a pattern that has
\* no group).
re_search(pattern, value) ==
    LET From(i) == GroupDicts(pattern, SubSeq(value, i, Len(value)), <<>>, <<>>)
        starts == {i \in 1..(Len(value) + 1) : From(i) # <<>>}
    IN  IF \A i \in 1..Len(pattern) : Char(pattern, i) # "("
        THEN [found |-> ReSearch(pattern, value), groupdict |-> <<>>]
        ELSE IF starts = {} THEN [found |-> FALSE, groupdict |-> <<>>]
        ELSE [found |-> TRUE,
              groupdict |-> Head(From(CHOOSE i \in starts : \A j \in starts : i <= j))]

\* Router.route_file: the first route, in the stored order, whose pattern is
\* found in the file name, with the named groups of the match as metadata.
RECURSIVE route_file(_, _)
route_file(routes, filepath) ==
    LET Searched(match) ==
            IF match.found
            THEN [ruleset |-> PyStr(Head(routes).ruleset), metadata |-> match.groupdict]
            ELSE route_file(Tail(routes), filepath)
    IN  IF routes = <<>> THEN [ruleset |-> None, metadata |-> <<>>]
        ELSE Searched(re_search(Head(routes).pattern, Basename(filepath)))

\* The failure records process_file collects from the results of row i: a
\* copy of the result, the row number, then fail.update(metadata).
FailuresOf(results, i, metadata) ==
    LET Fail(res) ==
            [n \in {"rule", "passed", "message", "row"} \cup DOMAIN metadata |->
                IF n \in DOMAIN metadata THEN metadata[n]
                ELSE IF n = "row" THEN i ELSE res[n]]
        Record(failed) == [k \in 1..Len(failed) |-> Fail(failed[k])]
    IN  Record(SelectSeq(results, LAMBDA res : ~res.passed))

RECURSIVE AllFailures(_, _, _, _)
AllFailures(self_rules, rows, i, metadata) ==
    IF i > Len(rows) THEN <<>>
    ELSE FailuresOf(validate_data(self_rules, rows[i]), i, metadata)
         \o AllFailures(self_rules, rows, i + 1, metadata)

\* ValidationEngine.process_file on the stored configuration: what it returns
\* ("raised" when an exception leaves it), the interpreter it leaves behind
\* and the alerts it triggered.
process_file(config, self_rules, global_rules_list, file) ==
    LET skipped == [ret |-> None, rules |-> self_rules,
                    rules_list |-> global_rules_list, alerts |-> <<>>]
        Validated(ruleset_name, after_parse, rows, raises, all_failures) ==
            IF rows = <<>> THEN after_parse
            ELSE IF raises THEN [after_parse EXCEPT !.ret = Raised]
            ELSE IF all_failures # <<>>
            THEN [after_parse EXCEPT
                    !.ret = PyFalse,
                    !.alerts = <<[filename |-> file.path,
                                  rule_name |-> ruleset_name,
                                  failures |-> all_failures]>>]
            ELSE [after_parse EXCEPT !.ret = PyTrue]
        Loaded(ruleset_name, parse, rows, metadata) ==
            Validated(ruleset_name,
                      [skipped EXCEPT !.rules = parse.parsed_rules,
                                      !.rules_list = parse.rules_list],
                      rows,
                      \E i \in 1..Len(rows) :
                          validate_data_raises(parse.parsed_rules, rows[i]),
                      AllFailures(parse.parsed_rules, rows, 1, metadata))
        Found(ruleset_name, rule_strings, metadata) ==
            IF rule_strings = <<>> THEN skipped
            ELSE Loaded(ruleset_name,
                        parse_multiple_rules(self_rules, global_rules_list,
                                             Join(rule_strings)),
                        load_data(file.rows), metadata)
        Routed(route) ==
            IF route.ruleset = None \/ route.ruleset.text = "" THEN skipped
            ELSE Found(route.ruleset.text, get_ruleset(config, route.ruleset.text),
                       route.metadata)
    IN  Routed(route_file(config.routes, file.path))

(***************************************************************************)
(* INPUTS.                                                                 *)
(***************************************************************************)
\* The rows the evaluator sees are the rows load_data builds.  The raw
\* fields of generated rows are whole numbers, so every sum and difference the
\* rules form is exact in the program's floating point as it is in the fixed
\* point of the model.  Scenario rows: four columns for the rule
\* "4C = 1C + 2C" and its variants, the row whose only cell is 0.001, which
\* differs from the literal 0 by exactly the tolerance (0.001 - 0.0 is the same
\* double as 0.001), rows whose only field is zero, empty, blank or padded,
\* and rows whose second cell is zero for the rule "3C = 1C / 2C".  Signed
\* rows: one cell whose text is, or comes near to, a signed decimal.
Rows ==
    LET RawCells == {"10", "20", "30", "ignored"}
        ScenarioRawRows ==
            { <<"10", "20", "ignored", "30">>,
              <<"10", "20", "ignored", "29.9995">>,
              <<"10", "20", "30", "31">>,
              <<"0.001">>,
              <<"0">>, <<"0.0">>, <<"">>, <<"  ">>, <<" x ">>,
              <<"10", "0">>, <<"10", "0", "0">>, <<"10", "0", "0.0005">>,
              <<"10", "0", "-0.0005">>, <<"10", "0", "0.001">>, <<"10", "0", "5">>,
              <<"10", "0", "ignored">>, <<"0", "0", "0">>, <<"-1.5", "0.0", "0">>,
              <<"ignored", "0", "0">> }
        SignedRawRows ==
            { <<"-5">>, <<"-1.5">>, <<"5.25">>, <<"1-2">>, <<"12-">>, <<"1.2.3">>,
              <<"-">>, <<".">>, <<"--5">>, <<"a1">> }
        RawRows ==
            UNION {[1..n -> RawCells] : n \in 0..MaxCols}
                \cup ScenarioRawRows \cup SignedRawRows
    IN  {LoadRow(fields) : fields \in RawRows}

\* Rule lines, one of each shape the grammar has and lines it rejects.
RuleLines ==
    { "4C = 1C + 2C", "3C = 1C + 2C", "4C = 3C + 1", "4C = 3C + 0", "4C = (3C)",
      "4C = 3C", "4C = 500", "4C = 1C + 20C", "2C = 1C + 3C", "2C = 1C + 10",
      "2C = 1C",
      "1C = 0", "1C != 0", "1C = 10", "1C != 10",
      "1C > 10", "1C <= 10", "1C = \"ignored\"", "1C != \"10\"",
      "1C != \"ignored\"", "1C > \"a1\"",
      "50C > 40C", "2C > 1C",
      "1C BETWEEN 10 AND 20", "1C BETWEEN 20 AND 10", "2C BETWEEN 0.001 AND 10",
      "3C between 30 and 30",
      "0C REQUIRED", "0C > 10", "1C = 0C + 2C",
      "4C = 1C - 2C - 3C", "4C = 1C / 1C / 1C", "4C = 1C + 2C * 3C",
      "4C = 1C * 2C - 3C", "4C = (1C + 2C) * 3C", "4C = 1C - (2C - 3C)",
      "4C = 1C - 2C / 2C", "3C = 1C / 2C",
      "1C REQUIRED", "1C REQUIRED 2C", "10 1C REQUIRED", "1C > 10 20",
      "4C = 1C + 2C 3C", "1C IS NUMERIC", "1C is string_type",
      "1C IS STRING", "1C IS STRING_TYPE",
      "1C STARTS_WITH \"ig\"", "1C MATCHES \"i.*d\"",
      "1C MATCHES \"1\"", "1C MATCHES \".*\"", "1C CONTAINS \"2\"",
      "1C NOT_CONTAINS \"2\"", "1C contains \"o\"", "1C ENDS_WITH \"0\"" }

\* The lines rulesets of several lines are made of: rules, a line the parser
\* rejects, a comment, a blank line, and a rule whose pattern does not
\* compile.
DriverLines ==
    { "1C REQUIRED", "2C > 10", "50C > 40C", "# amounts", "  ",
      "1C MATCHES \"(\"" }

Rulesets == UNION {[1..n -> DriverLines] : n \in 0..MaxRules}

\* The rows the rulesets of several lines are evaluated on.
DriverRows ==
    {LoadRow(fields) : fields \in {<<>>, <<"10">>, <<"10", "30">>, <<"ignored", "5">>}}

\* The rulesets stored in the configuration: none of its lines, some, or all
\* are rules the parser accepts; one holds a pattern that does not compile.
StoredRulesets ==
    { <<>>,
      <<"1C REQUIRED">>,
      <<"1C REQUIRED", "2C > 10">>,
      <<"# amounts", "50C > 40C">>,
      <<"2C > 10", "50C > 40C">>,
      <<"1C MATCHES \"(\"">> }

\* Files: a path and the csv rows of the file.
Files ==
    LET FilePaths == {"/data/input/Finance-2024.txt", "Inventory-1.txt"}
        FileRawRows == { <<"10", "30">>, <<"ignored">>, <<>> }
    IN  [path : FilePaths, rows : UNION {[1..n -> FileRawRows] : n \in 0..MaxRows}]

RulesetNames == {"financial_rules"}

\* The configuration of demo_scenarios.py: financial files and inventory
\* files, each routed to its own ruleset.
DemoConfig ==
    add_route(
        add_ruleset(
            add_route(add_ruleset(EmptyConfig, "financial_rules", <<"3C > 1000">>),
                      "Finance-.*\\.txt", "financial_rules", 10),
            "inventory_rules", <<"2C > 0", "1C STARTS_WITH \"Item\"">>),
        "Inventory-.*\\.txt", "inventory_rules", 10)

\* The files of demo_scenarios.py, a second financial file that passes, and a
\* file no route matches.
DemoFiles ==
    { [path |-> "/srv/input/Finance-2024.txt", rows |-> << <<"TXN001", "VendorX", "500">> >>],
      [path |-> "/srv/input/Finance-2025.txt", rows |-> << <<"TXN002", "VendorY", "1500">> >>],
      [path |-> "/srv/input/Inventory-Warehouse.txt", rows |-> << <<"Item-Box", "50">> >>],
      [path |-> "/srv/input/notes.md", rows |-> << <<"x">> >>] }

\* The background tasks the API can have scheduled.
Tasks == 1..MaxTasks

\* The ConfigManager instances on config.json: the one of api.py and the one
\* the engine makes for itself.
Managers == {"api", "cm"}

\* No validate_rule call has been recorded.
Unseen == [taken |-> FALSE, rule |-> None, data |-> <<>>, verdict |-> None]

\* A process_file call that has not started.
IdleCall ==
    [pc |-> "idle", file |-> [path |-> "", rows |-> <<>>], ruleset_name |-> "", lines |-> <<>>,
     line |-> 1, result |-> None, parsed_rules |-> <<>>, rows |-> <<>>,
     row |-> 1, results |-> <<>>, all_failures |-> <<>>, ret |-> None,
     metadata |-> <<>>]

(***************************************************************************)
(* STATE MACHINE.                                                          *)
(***************************************************************************)
Init ==
    /\ rules = <<>>
    /\ rules_list = <<>>
    /\ op = "init"
    /\ arg = None
    /\ ret = None
    /\ raised = FALSE
    /\ loaded = <<>>
    /\ alerts = <<>>
    /\ disk = EmptyConfig
    /\ calls = [t \in Tasks |-> IdleCall]
    /\ input_dir = <<>>
    /\ processed_dir = <<>>
    /\ rejected_dir = <<>>
    /\ files = <<>>
    /\ seen = Unseen
    /\ configs = [m \in Managers |-> EmptyConfig]

\* DSLInterpreter.__init__
NewInterpreter ==
    /\ rules' = <<>>
    /\ rules_list' = <<>>
    /\ op' = "init"
    /\ arg' = None
    /\ ret' = None
    /\ raised' = FALSE
    /\ loaded' = <<>>
    /\ UNCHANGED <<alerts, disk>>
    /\ UNCHANGED <<calls, watcher_vars, seen, configs>>

\* interpreter.parse_rule(rule_text)
ParseRule(rule_text) ==
    LET Returns(call) ==
            /\ rules' = call.rules
            /\ rules_list' = call.rules_list
            /\ ret' = call.ret
    IN  /\ Returns(parse_rule(rules, rule_text))
        /\ op' = "parse_rule"
        /\ arg' = rule_text
        /\ raised' = FALSE
        /\ loaded' = Append(loaded, rule_text)
        /\ UNCHANGED <<alerts, disk>>
        /\ UNCHANGED <<calls, watcher_vars, seen, configs>>

\* interpreter.parse_multiple_rules(rules_text)
ParseMultipleRules(rules_text) ==
    LET Returns(call) ==
            /\ rules' = call.rules
            /\ rules_list' = call.rules_list
            /\ ret' = call.parsed_rules
    IN  /\ Returns(parse_multiple_rules(rules, rules_list, rules_text))
        /\ op' = "parse_multiple_rules"
        /\ arg' = rules_text
        /\ raised' = FALSE
        /\ loaded' = loaded \o RuleLinesOf(rules_text)
        /\ UNCHANGED <<alerts, disk>>
        /\ UNCHANGED <<calls, watcher_vars, seen, configs>>

\* interpreter.validate_data(data)
ValidateData(data) ==
    /\ op' = "validate_data"
    /\ arg' = data
    /\ raised' = validate_data_raises(rules, data)
    /\ ret' = IF validate_data_raises(rules, data) THEN <<>>
              ELSE validate_data(rules, data)
    /\ UNCHANGED <<rules, rules_list, loaded, alerts, disk>>
    /\ UNCHANGED <<calls, watcher_vars, seen, configs>>

\* config_manager.add_ruleset(name, rules)
AddRuleset(name, rule_strings) ==
    /\ disk' = add_ruleset(disk, name, rule_strings)
    /\ op' = "add_ruleset"
    /\ raised' = FALSE
    /\ arg' = PyStr(name)
    /\ ret' = None
    /\ UNCHANGED <<rules, rules_list, loaded, alerts>>
    /\ UNCHANGED <<calls, watcher_vars, seen, configs>>

\* config_manager.add_route(pattern, ruleset_name, priority)
AddRoute(pattern, ruleset_name, priority) ==
    /\ disk' = add_route(disk, pattern, ruleset_name, priority)
    /\ op' = "add_route"
    /\ raised' = FALSE
    /\ arg' = [pattern |-> pattern, ruleset |-> ruleset_name, priority |-> priority]
    /\ ret' = None
    /\ UNCHANGED <<rules, rules_list, loaded, alerts>>
    /\ UNCHANGED <<calls, watcher_vars, seen, configs>>

\* engine.process_file(filepath): the configuration is reloaded from the file
\* first, and the interpreter's rules are replaced by the parsed ruleset.
EngineCall(file) ==
    LET Returns(call) ==
            /\ rules' = call.rules
            /\ rules_list' = call.rules_list
            /\ ret' = IF call.ret = Raised THEN None ELSE call.ret
            /\ raised' = (call.ret = Raised)
            /\ alerts' = call.alerts
        LinesParsed(rule_strings) ==
            IF rule_strings = <<>> THEN loaded ELSE RuleLinesOf(Join(rule_strings))
    IN  /\ Returns(process_file(disk, rules, rules_list, file))
        /\ op' = "process_file"
        /\ arg' = file
        /\ loaded' = LinesParsed(get_ruleset(disk,
                         route_file(disk.routes, file.path).ruleset.text))
        /\ UNCHANGED <<disk, seen, configs>>

ProcessFile(file) == EngineCall(file) /\ UNCHANGED <<calls, watcher_vars>>

\* The interpreter driven directly: rulesets of several lines.
Next ==
    \/ NewInterpreter
    \/ \E line \in DriverLines :
          /\ Len(rules) < MaxRules
          /\ Len(loaded) < MaxRules
          /\ ParseRule(line)
    \/ \E lines \in Rulesets :
          /\ Len(rules) + Len(lines) <= MaxRules
          /\ Len(loaded) + Len(lines) <= MaxRules
          /\ ParseMultipleRules(Join(lines))
    \/ \E data \in DriverRows : ValidateData(data)

Spec == Init /\ [][Next]_vars

\* A ruleset loaded with parse_multiple_rules on a new interpreter, then rows.
NextRuleset ==
    \/ NewInterpreter
    \/ \E lines \in Rulesets : op = "init" /\ ParseMultipleRules(Join(lines))
    \/ \E data \in DriverRows : ValidateData(data)

SpecRuleset == Init /\ [][NextRuleset]_vars

\* interpreter.validate_rule(rule, data) on a rule of the interpreter.  The
\* first call, or none, is kept in seen.
ValidateRule(rule, data) ==
    LET Called(verdict) ==
            /\ ret' = verdict
            /\ seen' \in IF seen.taken THEN {seen}
                          ELSE {seen, [taken |-> TRUE, rule |-> rule, data |-> data,
                                       verdict |-> verdict]}
    IN  /\ op' = "validate_rule"
        /\ arg' = [rule |-> rule, data |-> data]
        /\ raised' = validate_rule_raises(rule, data)
        /\ IF validate_rule_raises(rule, data)
           THEN ret' = None /\ UNCHANGED seen
           ELSE Called(validate_rule(rule, data))
        /\ UNCHANGED <<rules, rules_list, loaded, alerts, disk, calls, watcher_vars,
                       configs>>

\* A ruleset loaded on a new interpreter, then validate_rule and validate_data
\* calls on its rules and on rows, in any order.
NextVerdicts ==
    \/ \E lines \in Rulesets : op = "init" /\ ParseMultipleRules(Join(lines))
    \/ \E i \in 1..Len(rules), data \in DriverRows :
          op # "init" /\ ValidateRule(rules[i], data)
    \/ \E data \in DriverRows : op # "init" /\ ValidateData(data)

SpecVerdicts == Init /\ [][NextVerdicts]_vars

\* One rule line on a new interpreter, evaluated on one row.
NextRule ==
    \/ NewInterpreter
    \/ \E line \in RuleLines : op = "init" /\ ParseRule(line)
    \/ \E data \in Rows : op = "parse_rule" /\ ValidateData(data)

SpecRule == Init /\ [][NextRule]_vars

\* The engine on a configuration built with add_ruleset and add_route: the
\* configuration is written first, then files are processed.
NextEngine ==
    \/ \E name \in RulesetNames, lines \in StoredRulesets :
          op # "process_file" /\ AddRuleset(name, lines)
    \/ \E pattern \in {"Finance-.*\\.txt", ".*\\.txt"}, name \in RulesetNames,
          priority \in {10, 100} :
          op # "process_file" /\ AddRoute(pattern, name, priority)
    \/ \E file \in Files : ProcessFile(file)

SpecEngine == Init /\ [][NextEngine]_vars

\* ConfigManager(config_path) and load_config(): the instance takes the stored
\* configuration as its own.
LoadConfig(self) ==
    /\ configs' = [configs EXCEPT ![self] = disk]
    /\ op' = "load_config"
    /\ arg' = [self |-> self]
    /\ ret' = None
    /\ raised' = FALSE
    /\ UNCHANGED <<rules, rules_list, loaded, alerts, disk, calls, watcher_vars, seen>>

\* save_config() at the end of a method of the instance self, whose
\* configuration has become config: json.dump writes all of it.
SaveConfig(self, config) ==
    /\ configs' = [configs EXCEPT ![self] = config]
    /\ disk' = config
    /\ ret' = None
    /\ raised' = FALSE
    /\ UNCHANGED <<rules, rules_list, loaded, alerts, calls, watcher_vars, seen>>

\* self.add_ruleset(name, rules) on the instance self
InstanceAddRuleset(self, name, rule_strings) ==
    /\ op' = "add_ruleset"
    /\ arg' = [self |-> self, name |-> name]
    /\ SaveConfig(self, add_ruleset(configs[self], name, rule_strings))

\* self.add_route(pattern, ruleset_name, priority) on the instance self
InstanceAddRoute(self, pattern, ruleset_name, priority) ==
    /\ op' = "add_route"
    /\ arg' = [self |-> self, pattern |-> pattern]
    /\ SaveConfig(self, add_route(configs[self], pattern, ruleset_name, priority))

\* self.set_system_config(config) on the instance self
InstanceSetSystemConfig(self, system_config) ==
    /\ op' = "set_system_config"
    /\ arg' = [self |-> self]
    /\ SaveConfig(self, set_system_config(configs[self], system_config))

\* Two ConfigManager instances on one configuration file: each loads the file
\* when it is created (and whenever load_config is called) and saves its own
\* configuration after every change.
NextManagers ==
    \E self \in Managers :
        \/ LoadConfig(self)
        \/ \E name \in {"financial_rules", "inventory_rules"} :
              InstanceAddRuleset(self, name, <<"3C > 1000">>)
        \/ \E pattern \in {"Finance-.*\\.txt", "Inventory-.*\\.txt"} :
              InstanceAddRoute(self, pattern, "financial_rules", 10)
        \/ InstanceSetSystemConfig(self, [email_recipients |-> <<"admin@example.com">>])

SpecManagers == Init /\ [][NextManagers]_vars

\* The engine on routes whose patterns capture named groups of the file name:
\* the groups are the metadata of the failure records.
NextMetadata ==
    \/ \E lines \in {<<"1C REQUIRED">>, <<"1C REQUIRED", "2C > 10">>} :
          op # "process_file" /\ AddRuleset("financial_rules", lines)
    \/ \E pattern \in {"Finance-(?P<year>\\d*)\\.txt", "(?P<rule>\\w*)-(?P<row>\\d*)"} :
          op # "process_file" /\ AddRoute(pattern, "financial_rules", 10)
    \/ \E file \in Files : ProcessFile(file)

SpecMetadata == Init /\ [][NextMetadata]_vars

\* router.route_file(filepath)
RouteFile(filepath) ==
    /\ op' = "route_file"
    /\ arg' = PyStr(filepath)
    /\ ret' = route_file(disk.routes, filepath)
    /\ raised' = FALSE
    /\ UNCHANGED <<rules, rules_list, loaded, alerts, disk, calls, watcher_vars,
                   seen, configs>>

\* The router on routes written with add_route: patterns with and without
\* named groups, two rulesets, priorities that tie and that differ.
NextRoutes ==
    \/ \E pattern \in {"Finance-(?P<year>\\d*)\\.txt", "(?P<dept>\\w*)-.*", ".*\\.txt"},
          name \in {"financial_rules", "inventory_rules"},
          priority \in {1, 10} :
          AddRoute(pattern, name, priority)
    \/ \E filepath \in {"/data/input/Finance-2024.txt", "Inventory-1.txt", "notes.md"} :
          RouteFile(filepath)

SpecRoutes == Init /\ [][NextRoutes]_vars

(***************************************************************************)
(* BACKGROUND TASKS.  The API's /validate schedules process_file on the one *)
(* shared engine as a background task; the tasks run on the threads of a   *)
(* pool, so the statements of two calls interleave.  A step of a call is   *)
(* one statement of process_file, parse_multiple_rules or parse_rule that  *)
(* reads or writes what the calls share: the interpreter's rules and the   *)
(* global rules_list.  A run of the parser on one line and the evaluation  *)
(* of one row are taken as single steps.                                   *)
(***************************************************************************)
\* One step of call t: its record becomes next.
Step(t, next) ==
    /\ calls' = [calls EXCEPT ![t] = next]
    /\ UNCHANGED <<op, arg, ret, raised, loaded, disk, watcher_vars, seen, configs>>

\* POST /validate and the start of process_file: the configuration is
\* reloaded, the file routed and its ruleset fetched.
TaskBegin(t, file) ==
    LET Found(name, rule_lines, metadata) ==
            [IdleCall EXCEPT !.pc = IF rule_lines = <<>> THEN "assign" ELSE "reset",
                             !.file = file, !.ruleset_name = name,
                             !.lines = rule_lines, !.metadata = metadata]
        Fetched(name, rule_strings, metadata) ==
            IF rule_strings = <<>>
            THEN [IdleCall EXCEPT !.pc = "done", !.file = file]
            ELSE Found(name, RuleLinesOf(Join(rule_strings)), metadata)
        Routed(route) == Fetched(route.ruleset.text,
                                 get_ruleset(disk, route.ruleset.text), route.metadata)
    IN  /\ calls[t].pc = "idle"
        /\ Step(t, Routed(route_file(disk.routes, file.path)))
        /\ UNCHANGED <<rules, rules_list, alerts>>

\* parse_rule: rules_list = []
TaskReset(t) ==
    /\ calls[t].pc = "reset"
    /\ rules_list' = <<>>
    /\ Step(t, [calls[t] EXCEPT !.pc = "parse"])
    /\ UNCHANGED <<rules, alerts>>

\* parse_rule: result = self.parser.parse(rule_text); p_rule_statement appends
\* to the global rules_list as it stands.
TaskParse(t) ==
    LET Ran(parse) ==
            /\ rules_list' = parse.rules_list
            /\ Step(t, [calls[t] EXCEPT !.pc = "collect", !.result = parse.result])
    IN  /\ calls[t].pc = "parse"
        /\ Ran(yacc_parse(Tokenize(calls[t].lines[calls[t].line], 1), 1, rules_list))
        /\ UNCHANGED <<rules, alerts>>

\* parse_rule: if rules_list: rule = rules_list[0]; self.rules.append(rule);
\* return rule; else return result.  parse_multiple_rules: if parsed:
\* parsed_rules.append(parsed), and the next line.
TaskCollect(t) ==
    LET Collected(parsed) ==
            [calls[t] EXCEPT
                !.pc = IF calls[t].line < Len(calls[t].lines) THEN "reset" ELSE "assign",
                !.line = calls[t].line + 1,
                !.parsed_rules = IF parsed = None THEN calls[t].parsed_rules
                                 ELSE Append(calls[t].parsed_rules, parsed)]
    IN  /\ calls[t].pc = "collect"
        /\ IF rules_list # <<>>
           THEN /\ rules' = Append(rules, rules_list[1])
                /\ Step(t, Collected(rules_list[1]))
           ELSE /\ rules' = rules
                /\ Step(t, Collected(calls[t].result))
        /\ UNCHANGED <<rules_list, alerts>>

\* process_file: self.interpreter.rules = parsed_rules
TaskAssign(t) ==
    /\ calls[t].pc = "assign"
    /\ rules' = calls[t].parsed_rules
    /\ Step(t, [calls[t] EXCEPT !.pc = "load"])
    /\ UNCHANGED <<rules_list, alerts>>

\* process_file: rows = self.load_data(filepath); no rows, no result.
TaskLoad(t) ==
    LET Loaded(rows) ==
            [calls[t] EXCEPT !.pc = IF rows = <<>> THEN "done" ELSE "validate",
                             !.rows = rows]
    IN  /\ calls[t].pc = "load"
        /\ Step(t, Loaded(load_data(calls[t].file.rows)))
        /\ UNCHANGED <<rules, rules_list, alerts>>

\* process_file: results = self.interpreter.validate_data(row) for the next
\* row, against the rules the interpreter holds now, and the failures of the
\* row collected.
TaskValidate(t) ==
    LET Evaluated(results) ==
            [calls[t] EXCEPT
                !.pc = IF calls[t].row < Len(calls[t].rows) THEN "validate" ELSE "finish",
                !.row = calls[t].row + 1,
                !.results = Append(calls[t].results, results),
                !.all_failures = calls[t].all_failures
                                   \o FailuresOf(results, calls[t].row,
                                                 calls[t].metadata)]
    IN  /\ calls[t].pc = "validate"
        /\ IF validate_data_raises(rules, calls[t].rows[calls[t].row])
           THEN Step(t, [calls[t] EXCEPT !.pc = "done", !.ret = Raised])
           ELSE Step(t, Evaluated(validate_data(rules, calls[t].rows[calls[t].row])))
        /\ UNCHANGED <<rules, rules_list, alerts>>

\* process_file: the alert and the result.
TaskFinish(t) ==
    /\ calls[t].pc = "finish"
    /\ IF calls[t].all_failures # <<>>
       THEN /\ alerts' = Append(alerts, [filename |-> calls[t].file.path,
                                          rule_name |-> calls[t].ruleset_name,
                                          failures |-> calls[t].all_failures])
            /\ Step(t, [calls[t] EXCEPT !.pc = "done", !.ret = PyFalse])
       ELSE /\ alerts' = alerts
            /\ Step(t, [calls[t] EXCEPT !.pc = "done", !.ret = PyTrue])
    /\ UNCHANGED <<rules, rules_list>>

\* The engine of the API on the stored configuration of the demonstration.
InitTasks ==
    /\ rules = <<>>
    /\ rules_list = <<>>
    /\ op = "init"
    /\ arg = None
    /\ ret = None
    /\ raised = FALSE
    /\ loaded = <<>>
    /\ alerts = <<>>
    /\ disk = DemoConfig
    /\ calls = [t \in Tasks |-> IdleCall]
    /\ input_dir = <<>>
    /\ processed_dir = <<>>
    /\ rejected_dir = <<>>
    /\ files = <<>>
    /\ seen = Unseen
    /\ configs = [m \in Managers |-> EmptyConfig]

NextTasks ==
    \/ \E t \in Tasks, file \in DemoFiles : TaskBegin(t, file)
    \/ \E t \in Tasks : TaskReset(t)
    \/ \E t \in Tasks : TaskParse(t)
    \/ \E t \in Tasks : TaskCollect(t)
    \/ \E t \in Tasks : TaskAssign(t)
    \/ \E t \in Tasks : TaskLoad(t)
    \/ \E t \in Tasks : TaskValidate(t)
    \/ \E t \in Tasks : TaskFinish(t)

SpecTasks == InitTasks /\ [][NextTasks]_vars

(***************************************************************************)
(* THE WATCHER.  input_dir, processed_dir and rejected_dir map the names   *)
(* of the files in each directory to their rows; files is the part of the  *)
(* directory listing the current poll has not come to yet.                 *)
(***************************************************************************)
\* time.strftime("%Y%m%d%H%M%S") at the moment of a move.
Timestamps == {"20260101120000", "20260101120001"}

\* move_file(filepath, dest_dir): the directory after the move.  A name that
\* is taken gets the timestamp between base and extension; shutil.move then
\* replaces whatever has the destination name.
move_file(dest_dir, filename, content, timestamp) ==
    LET Dots == {i \in 2..Len(filename) :
                    /\ Char(filename, i) = "."
                    /\ \E j \in 1..(i - 1) : Char(filename, j) # "."}
        LastDot == IF Dots = {} THEN Len(filename) + 1
                   ELSE CHOOSE i \in Dots : \A j \in Dots : j <= i
        base == SubSeq(filename, 1, LastDot - 1)
        ext == SubSeq(filename, LastDot, Len(filename))
        dest_path == IF filename \in DOMAIN dest_dir
                     THEN base \o "_" \o timestamp \o ext
                     ELSE filename
    IN  [n \in DOMAIN dest_dir \cup {dest_path} |->
            IF n = dest_path THEN content ELSE dest_dir[n]]

\* A file arrives in input/.
Drop(file) ==
    LET filename == Basename(file.path)
    IN  /\ filename \notin DOMAIN input_dir
        /\ input_dir' = [n \in DOMAIN input_dir \cup {filename} |->
                            IF n = filename THEN file.rows ELSE input_dir[n]]
        /\ UNCHANGED <<rules, rules_list, op, arg, ret, raised, loaded, alerts,
                       disk, calls, processed_dir, rejected_dir, files,
                       seen, configs>>

\* watch, step 1: os.listdir(INPUT_DIR), in the order the file system gives.
Scan ==
    LET names == DOMAIN input_dir
        Listings == {l \in [1..Cardinality(names) -> names] :
                        \A i, j \in 1..Cardinality(names) : l[i] = l[j] => i = j}
    IN  /\ files = <<>>
        /\ files' \in Listings
        /\ UNCHANGED <<rules, rules_list, op, arg, ret, raised, loaded, alerts,
                       disk, calls, input_dir, processed_dir, rejected_dir,
                       seen, configs>>

\* watch, steps 2 and 3 for the next file of the listing: process_file on its
\* absolute path, then the move.  An exception leaves the for loop for the
\* handler of the while loop, which sleeps and polls again.
WatchFile ==
    LET filename == Head(files)
        Moved(dest_dir, timestamp) ==
            move_file(dest_dir, filename, input_dir[filename], timestamp)
    IN  /\ files # <<>>
        /\ EngineCall([path |-> "/srv/input/" \o filename,
                       rows |-> input_dir[filename]])
        /\ UNCHANGED calls
        /\ IF raised'
           THEN /\ files' = <<>>
                /\ UNCHANGED <<input_dir, processed_dir, rejected_dir>>
           ELSE /\ files' = Tail(files)
                /\ input_dir' = [n \in DOMAIN input_dir \ {filename} |-> input_dir[n]]
                /\ \E timestamp \in Timestamps :
                      IF ret' = PyTrue
                      THEN /\ processed_dir' = Moved(processed_dir, timestamp)
                           /\ UNCHANGED rejected_dir
                      ELSE /\ rejected_dir' = Moved(rejected_dir, timestamp)
                           /\ UNCHANGED processed_dir

\* The watcher started on the configuration of the demonstration, or on that
\* configuration with the inventory ruleset replaced by a MATCHES rule.
InitWatcher ==
    /\ rules = <<>>
    /\ rules_list = <<>>
    /\ op = "init"
    /\ arg = None
    /\ ret = None
    /\ raised = FALSE
    /\ loaded = <<>>
    /\ alerts = <<>>
    /\ disk \in {DemoConfig,
                 add_ruleset(DemoConfig, "inventory_rules", <<"1C MATCHES \"(\"">>)}
    /\ calls = [t \in Tasks |-> IdleCall]
    /\ input_dir = <<>>
    /\ processed_dir = <<>>
    /\ rejected_dir = <<>>
    /\ files = <<>>
    /\ seen = Unseen
    /\ configs = [m \in Managers |-> EmptyConfig]

\* Each file of the demonstration arrives once.
NextWatcher ==
    \/ \E file \in DemoFiles :
          /\ Basename(file.path) \notin DOMAIN processed_dir \cup DOMAIN rejected_dir
          /\ Drop(file)
    \/ Scan
    \/ WatchFile

\* The loop of watch never stops polling, and never stops in the middle of a
\* listing.  WatchFile is enabled exactly when the listing is not empty and is
\* the only step that then changes it, so its fairness is stated on files.
SpecWatcher ==
    /\ InitWatcher
    /\ [][NextWatcher]_vars
    /\ WF_vars(Scan)
    /\ WF_files(files # <<>> /\ files' \in {Tail(files), <<>>})

\* move_file(filepath, dest_dir) on a file of input/, as watch calls it.
MoveFile(filename, dest_dir, timestamp) ==
    LET Moved(dir) == move_file(dir, filename, input_dir[filename], timestamp)
    IN  /\ filename \in DOMAIN input_dir
        /\ input_dir' = [n \in DOMAIN input_dir \ {filename} |-> input_dir[n]]
        /\ IF dest_dir = "processed"
           THEN processed_dir' = Moved(processed_dir) /\ UNCHANGED rejected_dir
           ELSE rejected_dir' = Moved(rejected_dir) /\ UNCHANGED processed_dir
        /\ op' = "move_file"
        /\ arg' = PyStr(filename)
        /\ ret' = None
        /\ raised' = FALSE
        /\ UNCHANGED <<rules, rules_list, loaded, alerts, disk, calls, files,
                       seen, configs>>

\* Files of one name and different content arriving in input/ again and
\* again, each moved to processed/ or rejected/ at some second.
NextMoves ==
    \/ \E n \in 1..3 :
          Drop([path |-> "/srv/input/Finance-2024.txt", rows |-> << <<NatStr(n)>> >>])
    \/ \E filename \in DOMAIN input_dir, dest_dir \in {"processed", "rejected"},
          timestamp \in Timestamps :
          MoveFile(filename, dest_dir, timestamp)

SpecMoves == Init /\ [][NextMoves]_vars

(***************************************************************************)
(* PROPERTIES.  A property speaks of the state an operation left: op names *)
(* the operation, arg its argument, ret and raised its outcome, loaded the *)
(* rule lines the interpreter was given.  What a rule line is meant to     *)
(* say is written down here independently of the parser: its columns and   *)
(* its numbers, in fixed-point units.                                      *)
(***************************************************************************)
\* Cell n of the row is present and holds a number.
Numeric(data, n) == n \in 1..Len(data) /\ data[n].kind \in {"int", "float"}

\* validate_data has just returned its verdicts for the one rule line `line`.
Judged(line) == op = "validate_data" /\ ~raised /\ loaded = <<line>>

\* The sum of the cells of the row at the columns cols.
RECURSIVE CellSum(_, _)
CellSum(data, cols) ==
    IF cols = <<>> THEN 0 ELSE data[Head(cols)].num + CellSum(data, Tail(cols))

\* Arithmetic rule lines as written: the target column, the columns the
\* expression adds and the sum of the literals it adds.
ArithmeticCases ==
    { [line |-> "4C = 1C + 2C", target |-> 4, cols |-> <<1, 2>>, literal |-> 0],
      [line |-> "3C = 1C + 2C", target |-> 3, cols |-> <<1, 2>>, literal |-> 0],
      [line |-> "4C = 3C + 1", target |-> 4, cols |-> <<3>>, literal |-> 1 * Scale],
      [line |-> "4C = 3C + 0", target |-> 4, cols |-> <<3>>, literal |-> 0],
      [line |-> "4C = (3C)", target |-> 4, cols |-> <<3>>, literal |-> 0],
      [line |-> "4C = 1C + 20C", target |-> 4, cols |-> <<1, 20>>, literal |-> 0],
      [line |-> "2C = 1C + 3C", target |-> 2, cols |-> <<1, 3>>, literal |-> 0],
      [line |-> "2C = 1C + 10", target |-> 2, cols |-> <<1>>, literal |-> 10 * Scale] }

\* The target and every column the expression names are numbers in the row.
Coerces(c, data) ==
    /\ Numeric(data, c.target)
    /\ \A k \in 1..Len(c.cols) : Numeric(data, c.cols[k])

\* |target - value(expr)| < 0.001, every column reference being the row's cell
\* and every literal its own value.
WithinTolerance(c, data) ==
    Abs(data[c.target].num - (CellSum(data, c.cols) + c.literal)) < Tolerance

\* Comparisons of cell 1 with a literal, as written.
LiteralComparisons ==
    { [eq |-> "1C = 0", ne |-> "1C != 0", w |-> 0],
      [eq |-> "1C = 10", ne |-> "1C != 10", w |-> 10 * Scale] }

\* Range rule lines as written.
RangeCases ==
    { [line |-> "1C BETWEEN 10 AND 20", column |-> 1,
       min |-> 10 * Scale, max |-> 20 * Scale],
      [line |-> "1C BETWEEN 20 AND 10", column |-> 1,
       min |-> 20 * Scale, max |-> 10 * Scale],
      [line |-> "2C BETWEEN 0.001 AND 10", column |-> 2,
       min |-> Scale \div 1000, max |-> 10 * Scale],
      [line |-> "3C between 30 and 30", column |-> 3,
       min |-> 30 * Scale, max |-> 30 * Scale] }

\* C1: after a ruleset is loaded with parse_multiple_rules, validate_data
\* returns one verdict per rule line of the ruleset, the i-th for the i-th
\* line.  (Stated as the specification states it; the model refutes it.)
C1_OneVerdictPerRuleLine ==
    (op = "validate_data" /\ ~raised) => Len(ret) = Len(loaded)

\* C2: parse_multiple_rules does not return normally with a rule line of the
\* text missing from the rules it returns.  (Stated as the specification
\* states it; the model refutes it.)
C2_NoLineSilentlyMissing ==
    (op = "parse_multiple_rules" /\ ~raised) => Len(ret) = Len(RuleLinesOf(arg))

\* C3: process_file returns None when no route matches, the routed ruleset is
\* empty or not found, or the file has no rows; otherwise it returns False
\* when some verdict of some row failed and True when none did, and it calls
\* trigger_alert once when it returns False and never otherwise.  (Stated as
\* the specification states it; the model refutes it.)
C3_ProcessFileResult ==
    op = "process_file" =>
        LET route == route_file(disk.routes, arg.path)
            skipped ==
                \/ route.ruleset = None
                \/ get_ruleset(disk, route.ruleset.text) = <<>>
                \/ load_data(arg.rows) = <<>>
            failing ==
                \E i \in 1..Len(arg.rows) : \E k \in 1..Len(rules) :
                    ~validate_rule(rules[k], LoadRow(arg.rows[i])).passed
        IN  /\ ~raised
            /\ IF skipped THEN ret = None /\ alerts = <<>>
               ELSE /\ ret \in {PyTrue, PyFalse}
                    /\ ret = PyFalse <=> failing
                    /\ Len(alerts) = IF ret = PyFalse THEN 1 ELSE 0

\* C4: "COL = rhs" is a comparison rule when rhs is one number or one column
\* reference, and an arithmetic rule when rhs has an operator or parentheses.
\* (Stated as the specification states it; the model refutes it.)
C4_EqualsTagging ==
    op = "parse_rule" =>
        /\ arg \in {"4C = 3C", "4C = 500", "2C = 1C", "1C = 0", "1C = 10"}
              => (ret # None /\ ret.type = "comparison")
        /\ arg \in {"4C = 3C + 1", "4C = 3C + 0", "4C = 1C + 2C", "4C = (3C)"}
              => (ret # None /\ ret.type = "arithmetic")

\* C5: a comparison whose right-hand side is a column reference is accepted
\* by the parser as a comparison rule, and its verdict compares the left cell
\* with the cell of the referenced column.  (Stated as the specification
\* states it; the model refutes it.)
C5_ColumnComparisonAccepted ==
    (Judged("2C > 1C") /\ Numeric(arg, 1) /\ Numeric(arg, 2)) =>
        /\ Len(rules) = 1
        /\ rules[1].type = "comparison"
        /\ Len(ret) = 1
        /\ ret[1].passed <=> arg[2].num > arg[1].num

\* C6: an arithmetic rule passes iff its target and every operand are numbers
\* and the target is within 0.001 of the value of the expression, each column
\* reference standing for the row's cell.  (Stated as the specification states
\* it; the model refutes it.)
C6_ArithmeticPassesIff ==
    \A c \in ArithmeticCases :
        Judged(c.line) =>
            /\ Len(ret) = 1
            /\ ret[1].passed <=> (Coerces(c, arg) /\ WithinTolerance(c, arg))

\* C7: a numeric literal of an arithmetic expression contributes its own
\* value: on a row whose target and operand cells are numbers, "4C = 3C + 1"
\* passes iff cell 4 is within 0.001 of cell 3 plus 1.  (Stated as the
\* specification states it; the model refutes it.)
C7_LiteralKeepsItsValue ==
    \A c \in {x \in ArithmeticCases : x.literal # 0} :
        (Judged(c.line) /\ Coerces(c, arg))
            => (ret[1].passed <=> WithinTolerance(c, arg))

\* C8: when a column the expression names, or the target, is absent from the
\* row or is no number, the arithmetic rule fails and its message names the
\* target column.  (Stated as the specification states it; the model refutes
\* it.)
C8_MissingOperandFails ==
    \A c \in {x \in ArithmeticCases : x.literal = 0} :
        (Judged(c.line) /\ ~Coerces(c, arg))
            => (~ret[1].passed /\ ret[1].message.column = c.target)

\* C9: for a numeric cell v and a literal w, "=" passes iff |v - w| < 0.001
\* and "!=" passes iff "=" does not.  (Stated as the specification states it;
\* the model refutes it.)
C9_ExactlyOneOfEqualsAndNotEquals ==
    \A c \in LiteralComparisons :
        /\ (Judged(c.ne) /\ Numeric(arg, 1))
              => (ret[1].passed <=> ~(Abs(arg[1].num - c.w) < Tolerance))
        /\ (Judged(c.eq) /\ Numeric(arg, 1))
              => (ret[1].passed <=> Abs(arg[1].num - c.w) < Tolerance)

\* C10: a range rule "nC BETWEEN min AND max" passes iff cell n is present,
\* is a number v, and min <= v <= max; so a missing or non-numeric cell fails
\* and a rule with min > max passes on no row.
C10_RangePassesIff ==
    \A c \in RangeCases :
        Judged(c.line) =>
            /\ Len(ret) = 1
            /\ ret[1].passed <=>
                  /\ Numeric(arg, c.column)
                  /\ c.min <= arg[c.column].num
                  /\ arg[c.column].num <= c.max

\* C10 witness: the range rule has passed on a cell equal to its upper bound.
C10_Witness ==
    /\ Judged("1C BETWEEN 10 AND 20")
    /\ Numeric(arg, 1)
    /\ arg[1].num = 20 * Scale
    /\ ret[1].passed

\* The two spellings of the string datatype, each with the other.
StringTypeLines ==
    { [line |-> "1C IS STRING", other |-> "1C IS STRING_TYPE"],
      [line |-> "1C IS STRING_TYPE", other |-> "1C IS STRING"] }

\* C11: "nC IS STRING" and "nC IS STRING_TYPE" parse to the same datatype
\* rule, and that rule passes on every row that has cell n, whether the cell
\* is an int, a float or a text.  (Stated as the specification states it; the
\* model refutes it.)
C11_StringDatatypeAlwaysPasses ==
    \A c \in StringTypeLines :
        (Judged(c.line) /\ InData(1, arg)) =>
            /\ Len(ret) = 1
            /\ ret[1].rule.type = "datatype"
            /\ ret[1].rule = parse_rule(<<>>, c.other).ret
            /\ ret[1].passed

\* The text is a signed decimal: an optional sign in front, then digits with at
\* most one decimal point among them, at least one digit.
IsSignedDecimal(t) ==
    LET Unsigned(body) ==
            /\ AllIn(body, Digits \cup {"."})
            /\ Cardinality({i \in 1..Len(body) : Char(body, i) = "."}) <= 1
            /\ \E i \in 1..Len(body) : Char(body, i) \in Digits
    IN  Unsigned(IF t # "" /\ Head(t) \in {"+", "-"} THEN Tail(t) ELSE t)

\* C12: "nC IS NUMERIC" passes iff the text form of the present cell is a
\* signed decimal.  (Stated as the specification states it; the model refutes
\* it.)
C12_NumericIffSignedDecimal ==
    (Judged("1C IS NUMERIC") /\ InData(1, arg)) =>
        /\ Len(ret) = 1
        /\ ret[1].passed <=> IsSignedDecimal(PyStrOf(arg[1]))

\* The texts a first cell of the model can have, the empty text standing for
\* a missing cell.
CellTexts ==
    { "", "10", "20", "30", "ignored", "0.001", "-5", "-1.5", "5.25", "1-2",
      "12-", "1.2.3", "-", ".", "--5", "a1", "0", "0.0", "x" }

\* Pattern rule lines on column 1 as written, each with the texts of CellTexts
\* it is meant to pass on.
PatternCases ==
    { [line |-> "1C MATCHES \"i.*d\"", passing |-> {"ignored"}],
      [line |-> "1C MATCHES \"1\"", passing |-> {"10", "1-2", "12-", "1.2.3"}],
      [line |-> "1C MATCHES \".*\"", passing |-> CellTexts],
      [line |-> "1C CONTAINS \"2\"",
       passing |-> {"20", "5.25", "1-2", "12-", "1.2.3"}],
      [line |-> "1C NOT_CONTAINS \"2\"",
       passing |-> CellTexts \ {"20", "5.25", "1-2", "12-", "1.2.3"}],
      [line |-> "1C contains \"o\"", passing |-> {"ignored"}],
      [line |-> "1C STARTS_WITH \"ig\"", passing |-> {"ignored"}],
      [line |-> "1C ENDS_WITH \"0\"", passing |-> {"10", "20", "30", "0", "0.0"}] }

\* The text of cell n of the row, a missing cell being the empty text.
CellText(data, n) == IF n \in 1..Len(data) THEN PyStrOf(data[n]) ELSE ""

\* C13: a pattern rule is decided on the text of the cell, a missing cell
\* being the empty text: "matches" passes iff the regular expression matches
\* at the start of the text, "contains" iff the pattern is a substring,
\* "not_contains" iff it is not, "starts_with" and "ends_with" iff it is a
\* prefix and a suffix.
C13_PatternOnCellText ==
    \A c \in PatternCases :
        Judged(c.line) =>
            /\ Len(ret) = 1
            /\ CellText(arg, 1) \in CellTexts
            /\ ret[1].passed <=> CellText(arg, 1) \in c.passing

\* C13 witness: "matches" has passed on a text the pattern matches only a
\* prefix of.
C13_Witness ==
    /\ Judged("1C MATCHES \"1\"")
    /\ CellText(arg, 1) = "1-2"
    /\ ret[1].passed

\* Comparisons of cell 1 with a literal, as written: the operator, the text
\* of the literal and whether the literal is a number.
ComparisonCases ==
    { [line |-> "1C = 10", operator |-> "=", text |-> "10", numeric |-> TRUE],
      [line |-> "1C != 10", operator |-> "!=", text |-> "10", numeric |-> TRUE],
      [line |-> "1C > 10", operator |-> ">", text |-> "10", numeric |-> TRUE],
      [line |-> "1C <= 10", operator |-> "<=", text |-> "10", numeric |-> TRUE],
      [line |-> "1C != \"10\"", operator |-> "!=", text |-> "10", numeric |-> TRUE],
      [line |-> "1C = \"ignored\"", operator |-> "=", text |-> "ignored",
       numeric |-> FALSE],
      [line |-> "1C != \"ignored\"", operator |-> "!=", text |-> "ignored",
       numeric |-> FALSE],
      [line |-> "1C > \"a1\"", operator |-> ">", text |-> "a1", numeric |-> FALSE] }

\* What the text comparison of the cell with the literal of case c gives.
TextComparison(c, text) ==
    \/ (c.operator = "=" /\ text = c.text)
    \/ (c.operator = "!=" /\ text # c.text)

\* The comparison of case c has been decided as the claim C14 says.
DecidedOnText(c) ==
    /\ Len(ret) = 1
    /\ IF ~InData(1, arg)
       THEN /\ ~ret[1].passed
            /\ ret[1].message.template = "Column {column}C is empty"
            /\ ret[1].message.column = 1
       ELSE ~(Numeric(arg, 1) /\ c.numeric)
               => (ret[1].passed <=> TextComparison(c, CellText(arg, 1)))

\* C14: a comparison whose cell is present but one of whose sides is no
\* number is decided on the texts: "=" passes iff they are equal, "!=" iff
\* they differ, the other operators fail; a comparison whose cell is absent
\* fails with the message "Column NC is empty".  (Stated as the specification
\* states it; the model refutes it.)
C14_TextFallback ==
    \A c \in ComparisonCases : Judged(c.line) => DecidedOnText(c)

\* Rule lines that are a valid rule followed by extra tokens, or stray tokens
\* followed by a valid rule.
PartialLines == {"1C REQUIRED 2C", "10 1C REQUIRED", "1C > 10 20", "4C = 1C + 2C 3C"}

\* C15: a line whose tokens are not all accounted for by one rule is a syntax
\* error and yields no rule: parse_rule returns None and stores nothing.
\* (Stated as the specification states it; the model refutes it.)
C15_NoPartialParse ==
    (op = "parse_rule" /\ arg \in PartialLines) => (ret = None /\ rules = <<>>)

\* The column a parsed rule is about: the target of an arithmetic rule, the
\* column of every other rule.
StoredColumn(rule) == IF rule.type = "arithmetic" THEN rule.target ELSE rule.column

\* The least operand of an expression tree, in fixed-point units.
RECURSIVE LeastOperand(_)
LeastOperand(expr) ==
    IF expr.kind = "binary"
    THEN LET Least(l, r) == IF l < r THEN l ELSE r
         IN  Least(LeastOperand(expr.left), LeastOperand(expr.right))
    ELSE expr.num

\* Arithmetic lines whose expressions are written with column references only.
ColumnOnlyLines == {"4C = 1C + 2C", "3C = 1C + 2C", "2C = 1C + 3C", "1C = 0C + 2C"}

\* C16: every column reference stored in a parsed rule is at least 1, also
\* when the line is written with 0C.  (Stated as the specification states it;
\* the model refutes it.)
C16_ColumnsAtLeastOne ==
    /\ \A k \in 1..Len(rules) : StoredColumn(rules[k]) >= 1
    /\ (op = "parse_rule" /\ arg \in ColumnOnlyLines /\ ret # None)
          => LeastOperand(ret.expression) >= 1 * Scale

\* The rules a list of verdicts was given for.
RulesOf(results) == [k \in 1..Len(results) |-> results[k].rule]

\* The parsed rules of the ruleset the stored configuration routes the file to.
OwnRules(file) ==
    parse_multiple_rules(<<>>, <<>>,
        Join(get_ruleset(disk, route_file(disk.routes, file.path).ruleset.text))
    ).parsed_rules

\* C17: when two process_file calls for files of different rulesets run
\* concurrently on the shared engine, every row of each file is evaluated
\* against the parsed rules of the file's own ruleset.  (Stated as the
\* specification states it; the model refutes it.)
C17_RowsJudgedByOwnRules ==
    \A t \in Tasks, u \in Tasks :
        (calls[t].ruleset_name # "" /\ calls[u].ruleset_name # ""
            /\ calls[t].ruleset_name # calls[u].ruleset_name)
        => \A i \in 1..Len(calls[t].results) :
               RulesOf(calls[t].results[i]) = OwnRules(calls[t].file)

\* C18: every file the watcher finds in input/ eventually leaves it, and the
\* step that takes it out puts it in processed/ when process_file returned
\* True and in rejected/ when it returned False or None.
C18_FilesLeaveInput ==
    /\ \A file \in DemoFiles :
          (Basename(file.path) \in DOMAIN input_dir)
              ~> (Basename(file.path) \notin DOMAIN input_dir)
    /\ [][\A file \in DemoFiles :
            (/\ Basename(file.path) \in DOMAIN input_dir
             /\ Basename(file.path) \notin DOMAIN input_dir')
            => /\ op' = "process_file"
               /\ arg'.path = "/srv/input/" \o Basename(file.path)
               /\ IF ret' = PyTrue
                  THEN /\ Basename(file.path) \in DOMAIN processed_dir'
                       /\ rejected_dir' = rejected_dir
                  ELSE /\ Basename(file.path) \in DOMAIN rejected_dir'
                       /\ processed_dir' = processed_dir]_vars

C20_VerdictsCarryRuleIndex ==
    /\ (op = "validate_data" /\ ~raised) =>
          \A i \in 1..Len(ret) :
             /\ "rule_index" \in DOMAIN ret[i]
             /\ ret[i]["rule_index"] = i
    /\ \A a \in 1..Len(alerts) :
          \A k \in 1..Len(alerts[a].failures) :
             /\ {"row", "rule_index", "message"} \subseteq DOMAIN alerts[a].failures[k]
             /\ alerts[a].failures[k]["row"] \in 1..MaxRows
             /\ rules[alerts[a].failures[k]["rule_index"]] = alerts[a].failures[k]["rule"]

\* C21: a rule "nC REQUIRED" passes iff cell n exists in the row and its text,
\* trimmed, is not empty; it passes on every numeric cell, 0 included.
C21_RequiredPassesIff ==
    Judged("1C REQUIRED") =>
        /\ Len(ret) = 1
        /\ ret[1].passed <=> (1 \in 1..Len(arg) /\ Strip(PyStrOf(arg[1])) # "")
        /\ Numeric(arg, 1) => ret[1].passed

\* The rule passed on the cell 0.
C21_Witness ==
    /\ Judged("1C REQUIRED")
    /\ Len(arg) = 1
    /\ arg[1] = PyInt(0)
    /\ ret[1].passed

C23_NoRuleCarriedOver ==
    op = "parse_multiple_rules" =>
        \A data \in DriverRows :
            ~validate_data_raises(rules, data) =>
                RulesOf(validate_data(rules, data))
                    = parse_multiple_rules(<<>>, <<>>, arg).parsed_rules

\* Arithmetic rule lines with the expression tree each is meant to give, the
\* operand n standing for the column reference nC.
PrecedenceCases ==
    LET B(o, l, r) == [kind |-> "binary", op |-> o, left |-> l, right |-> r]
        c1 == PyInt(1)
        c2 == PyInt(2)
        c3 == PyInt(3)
    IN  { [line |-> "4C = 1C - 2C - 3C", tree |-> B("-", B("-", c1, c2), c3)],
          [line |-> "4C = 1C / 1C / 1C", tree |-> B("/", B("/", c1, c1), c1)],
          [line |-> "4C = 1C + 2C * 3C", tree |-> B("+", c1, B("*", c2, c3))],
          [line |-> "4C = 1C * 2C - 3C", tree |-> B("-", B("*", c1, c2), c3)],
          [line |-> "4C = (1C + 2C) * 3C", tree |-> B("*", B("+", c1, c2), c3)],
          [line |-> "4C = 1C - (2C - 3C)", tree |-> B("-", c1, B("-", c2, c3))],
          [line |-> "4C = 1C - 2C / 2C", tree |-> B("-", c1, B("/", c2, c2))] }

\* C24: the expression tree the parser builds respects precedence and
\* associativity: "*" and "/" bind tighter than "+" and "-", operators of one
\* group associate to the left, and a parenthesised expression is one operand.
C24_PrecedenceAndAssociativity ==
    \A c \in PrecedenceCases :
        (op = "parse_rule" /\ arg = c.line) =>
            /\ "expression" \in DOMAIN ret
            /\ ret.type = "arithmetic"
            /\ ret.target = 4
            /\ ret.expression = c.tree

\* "1C - 2C - 3C" parsed as a subtraction whose left operand is a subtraction.
C24_Witness ==
    /\ op = "parse_rule"
    /\ arg = "4C = 1C - 2C - 3C"
    /\ "expression" \in DOMAIN ret
    /\ ret.expression.left.kind = "binary"
    /\ ret.expression.right = PyInt(3)

\* C25: a numeric value divided by zero is 0, not an error and not a missing
\* value: on a row whose cell 1 is a number and whose cell 2 is 0 the rule
\* "3C = 1C / 2C" expects 0, and passes iff cell 3 is within 0.001 of 0.
C25_DivisionByZeroIsZero ==
    (/\ Judged("3C = 1C / 2C")
     /\ Numeric(arg, 1)
     /\ Numeric(arg, 2)
     /\ arg[2].num = 0) =>
        /\ Len(ret) = 1
        /\ ret[1].passed <=> (Numeric(arg, 3) /\ Abs(arg[3].num) < Tolerance)
        /\ Numeric(arg, 3) =>
              /\ ret[1].message.template
                    = "Column {target}C = {actual}, Expected: {expected:.2f}"
              /\ ret[1].message.v2 = Format2f(0)

\* The rule passed on a row that divides 10 by 0 and holds 0.0005 in cell 3.
C25_Witness ==
    /\ Judged("3C = 1C / 2C")
    /\ Len(arg) = 3
    /\ arg[1] = PyInt(10)
    /\ arg[2] = PyInt(0)
    /\ arg[3].num = Tolerance \div 2
    /\ ret[1].passed

\* C26: move_file loses no data on a name collision: no move replaces a file
\* that is already in the destination directory, so every file moved there
\* stays there under a name of its own.
C26_NoMoveOverwrites ==
    [][op' = "move_file" =>
          /\ \A n \in DOMAIN processed_dir :
                n \in DOMAIN processed_dir' /\ processed_dir'[n] = processed_dir[n]
          /\ \A n \in DOMAIN rejected_dir :
                n \in DOMAIN rejected_dir' /\ rejected_dir'[n] = rejected_dir[n]]_vars

\* C27: process_file returns True only when every rule line of the routed
\* ruleset was parsed: a ruleset with lines the parser rejects never lets a
\* file pass because those lines were left out.
C27_PassedOnAllRuleLines ==
    (op = "process_file" /\ ~raised /\ ret = PyTrue) =>
        /\ \A k \in 1..Len(loaded) : parse_rule(<<>>, loaded[k]).ret # None
        /\ Len(rules) >= Len(loaded)

\* C28: process_file never raises: whatever the configuration, the ruleset
\* the parser accepted and the file, it returns True, False or None, and
\* validate_rule returns a verdict for every parsed rule on every loaded row.
C28_ProcessFileNeverRaises ==
    op = "process_file" =>
        /\ ~raised
        /\ ret \in {PyTrue, PyFalse, None}
        /\ \A i \in 1..Len(load_data(arg.rows)) : \A k \in 1..Len(rules) :
               ~validate_rule_raises(rules[k], load_data(arg.rows)[i])

\* C29: in every failure record process_file builds, the keys row, message,
\* passed and rule hold the row number and the verdict's own values; the
\* metadata of the route's named groups is added to the record and replaces
\* none of those keys, whatever the groups are called.
C29_MetadataKeepsVerdictKeys ==
    (op = "process_file" /\ ~raised /\ ret = PyFalse) =>
        LET metadata == route_file(disk.routes, arg.path).metadata
            own == AllFailures(rules, load_data(arg.rows), 1, <<>>)
            failures == alerts[1].failures
        IN  /\ Len(failures) = Len(own)
            /\ \A k \in 1..Len(failures) :
                  /\ \A n \in DOMAIN metadata : n \in DOMAIN failures[k]
                  /\ \A n \in {"row", "message", "passed", "rule"} :
                        /\ n \in DOMAIN failures[k]
                        /\ n \notin DOMAIN metadata
                        /\ failures[k][n] = own[k][n]

\* C30: with two ConfigManager instances on one configuration file, no
\* add_ruleset, add_route or set_system_config of one instance removes from
\* the stored configuration a ruleset, a route or the system config that is
\* stored there: a ruleset changes only when it is the one added, a route
\* only when its pattern is the one added, the system config only when set.
C30_NoStoredEntryLost ==
    [][op' \in {"add_ruleset", "add_route", "set_system_config"} =>
          /\ \A n \in DOMAIN disk.rulesets :
                \/ op' = "add_ruleset" /\ arg'.name = n
                \/ n \in DOMAIN disk'.rulesets /\ disk'.rulesets[n] = disk.rulesets[n]
          /\ \A i \in 1..Len(disk.routes) :
                \/ op' = "add_route" /\ arg'.pattern = disk.routes[i].pattern
                \/ \E j \in 1..Len(disk'.routes) : disk'.routes[j] = disk.routes[i]
          /\ \A n \in DOMAIN disk.system_config :
                \/ op' = "set_system_config"
                \/ n \in DOMAIN disk'.system_config
                   /\ disk'.system_config[n] = disk.system_config[n]]_vars

====
